---- MODULE Spec2Model ----
(***************************************************************************)
(* CRUDER user-management service: the users table (PostgreSQL), the       *)
(* repository (internal/repository/users.go), the service                  *)
(* (internal/service/users.go) and the DeleteUser boundary policy          *)
(* (internal/controller/users.go).                                         *)
(*                                                                         *)
(* Strings are sequences of one-character strings, so that lower-casing,   *)
(* trimming, the full-name pattern and strings.Contains are computed and   *)
(* not assumed.  Every repository operation is one SQL statement, executed *)
(* atomically by the storage engine; a call is therefore two steps: the    *)
(* part of the handler that runs before the round trip (id parsing,        *)
(* normalisation, validation) and the statement together with everything   *)
(* the handler does with its outcome.                                      *)
(***************************************************************************)
EXTENDS Integers, Sequences, FiniteSets, TLC

\* ------------------------------------------------------------------------
\* Bounds of the model
\* ------------------------------------------------------------------------
\* CURRENT_TIMESTAMP takes the values 0..MaxClock.
MaxClock == 1
\* Total number of calls the clients start in one behaviour.
MaxOps == 3
\* The same, when two clients race.
MaxRaceOps == 3
\* Longest string given to the normalisation when all strings are tried.
MaxStrLen == 3

\* Requests of the caller that empties the store and lists it.
MaxListOps == 4

\* The concurrent callers (goroutines serving requests).
Clients == {"c1", "c2"}

\* ------------------------------------------------------------------------
\* Strings
\* ------------------------------------------------------------------------
UpperLetters ==
  <<"A","B","C","D","E","F","G","H","I","J","K","L","M",
    "N","O","P","Q","R","S","T","U","V","W","X","Y","Z">>

LowerLetters ==
  <<"a","b","c","d","e","f","g","h","i","j","k","l","m",
    "n","o","p","q","r","s","t","u","v","w","x","y","z">>

IsUpper(ch) == \E i \in 1..26 : UpperLetters[i] = ch

IsLetter(ch) == \E i \in 1..26 : UpperLetters[i] = ch \/ LowerLetters[i] = ch

\* unicode.ToLower on one character.
ToLowerChar(ch) ==
  IF IsUpper(ch)
    THEN LowerLetters[CHOOSE i \in 1..26 : UpperLetters[i] = ch]
    ELSE ch

\* strings.ToLower
ToLower(s) == [i \in 1..Len(s) |-> ToLowerChar(s[i])]

\* unicode.IsSpace: the characters strings.TrimSpace strips.  "VT" stands for
\* the vertical tab U+000B and "NBSP" for U+00A0.
IsSpace(ch) == ch \in {" ", "\t", "\n", "VT", "\f", "\r", "NBSP"}

\* Faulty variant: at most one whitespace character is cut from each end.
TrimSpace_OnePerEnd(s) ==
  LET lo == IF Len(s) >= 1 /\ IsSpace(s[1]) THEN 2 ELSE 1
      hi == IF Len(s) >= lo /\ IsSpace(s[Len(s)]) THEN Len(s) - 1 ELSE Len(s)
  IN SubSeq(s, lo, hi)

\* strings.TrimSpace
TrimSpace(s) ==
  LET idx == {i \in 1..Len(s) : ~IsSpace(s[i])}
  IN IF idx = {} THEN <<>>
     ELSE LET lo == CHOOSE i \in idx : \A j \in idx : i <= j
              hi == CHOOSE i \in idx : \A j \in idx : j <= i
          IN SubSeq(s, lo, hi)

\* strings.Contains
Contains(s, sub) ==
  \E i \in 1..(Len(s) - Len(sub) + 1) : SubSeq(s, i, i + Len(sub) - 1) = sub

\* The class [a-zA-Z\s\-'] of the full-name pattern; \s of Go's regexp is
\* [\t\n\f\r ] only.
InFullNameClass(ch) ==
  IsLetter(ch) \/ ch \in {" ", "\t", "\n", "\f", "\r"} \/ ch = "-" \/ ch = "'"

\* Faulty variant: * in place of +, which lets the empty string through.
MatchFullNamePattern_Star(s) ==
  \A i \in 1..Len(s) : InFullNameClass(s[i])

\* fullNamePattern.MatchString: ^[a-zA-Z\s\-']+$
MatchFullNamePattern(s) ==
  Len(s) >= 1 /\ \A i \in 1..Len(s) : InFullNameClass(s[i])

\* ------------------------------------------------------------------------
\* Errors
\* ------------------------------------------------------------------------
NoErr == [kind |-> "nil", name |-> "nil", msg |-> <<>>]

Sentinel(text) == [kind |-> "sentinel", name |-> text, msg |-> <<>>]

ErrUserNotFound == Sentinel("user not found")

ErrInvalidInput == Sentinel("invalid input")

ErrUsernameExists == Sentinel("username already exists")

ErrEmailExists == Sentinel("email already exists")

ErrDatabaseOperation == Sentinel("database operation failed")

\* database/sql's ErrNoRows, which Scan returns on an empty result.
SqlErrNoRows == Sentinel("sql: no rows in result set")

\* fmt.Errorf("%w: ...", e)
Wrap(e) == [kind |-> "wrapped", name |-> e.name, msg |-> <<>>]

\* errors.Is(err, target)
Is(err, target) ==
  err = target \/ (err.kind = "wrapped" /\ err.name = target.name)

\* *pq.Error with its Code and Message.
PqError(code, message) == [kind |-> "pq", name |-> code, msg |-> message]

\* An error of the driver that is no *pq.Error (a lost connection).
DriverBadConn == [kind |-> "driver", name |-> "driver: bad connection", msg |-> <<>>]

\* ------------------------------------------------------------------------
\* The users table (migrations/20251028000000_create_users_table_with_uuid.sql)
\* ------------------------------------------------------------------------
Str_username == <<"u","s","e","r","n","a","m","e">>

Str_email == <<"e","m","a","i","l">>

Str_jdoe == <<"j","d","o","e">>

Str_asmith == <<"a","s","m","i","t","h">>

Str_bjones == <<"b","j","o","n","e","s">>

Str_example_com == <<"@","e","x","a","m","p","l","e",".","c","o","m">>

\* A row of the table without its primary key.
Row(username, email, full_name, created_at, updated_at) ==
  [username |-> username, email |-> email, full_name |-> full_name,
   created_at |-> created_at, updated_at |-> updated_at]

\* The three rows the migration inserts; identities 1..3 stand for the
\* UUIDs uuid_generate_v4() gave them, the timestamps default to the
\* CURRENT_TIMESTAMP of the migration, which is the origin of the clock.
SeedUsers ==
  (1 :> Row(Str_jdoe, Str_jdoe \o Str_example_com,
            <<"J","o","h","n"," ","D","o","e">>, 0, 0)) @@
  (2 :> Row(Str_asmith, Str_asmith \o Str_example_com,
            <<"A","l","i","c","e"," ","S","m","i","t","h">>, 0, 0)) @@
  (3 :> Row(Str_bjones, Str_bjones \o Str_example_com,
            <<"B","o","b"," ","J","o","n","e","s">>, 0, 0))

\* A UUID that uuid_generate_v4() never produced for this table.
AbsentId == 0

\* The columns declared UNIQUE.
UniqueColumns == {"username", "email"}

\* PostgreSQL names the constraint of a UNIQUE column users_<column>_key and
\* the primary key users_pkey.
ConstraintName(col) ==
  <<"u","s","e","r","s","_">> \o
  (IF col = "username" THEN Str_username ELSE Str_email) \o
  <<"_","k","e","y">>

PkeyName == <<"u","s","e","r","s","_","p","k","e","y">>

\* The message of a unique_violation.
DuplicateKeyMessage(constraint) ==
  <<"d","u","p","l","i","c","a","t","e"," ","k","e","y"," ",
    "v","a","l","u","e"," ","v","i","o","l","a","t","e","s"," ",
    "u","n","i","q","u","e"," ","c","o","n","s","t","r","a","i","n","t",
    " ","\"">> \o constraint \o <<"\"">>

\* 23505 unique_violation raised for one of the two UNIQUE columns.
UniqueViolation(col) == PqError("23505", DuplicateKeyMessage(ConstraintName(col)))

\* 23505 raised for a constraint the repository does not know by name.
UnknownUniqueViolation == PqError("23505", DuplicateKeyMessage(PkeyName))

\* 57014 query_canceled (statement timeout).
QueryCanceled ==
  PqError("57014", <<"c","a","n","c","e","l","i","n","g"," ",
                     "s","t","a","t","e","m","e","n","t">>)

NoFault == NoErr

\* What a statement can fail with besides the constraints of the table.
ReadFaults == {NoFault, DriverBadConn, QueryCanceled}

WriteFaults == ReadFaults \cup {UnknownUniqueViolation}

\* Faulty variant: the UNIQUE constraint on email is missing.
ViolatedColumns_UsernameOnly(tbl, id, row) ==
  {col \in {"username"} :
     \E o \in DOMAIN tbl \ {id} : tbl[o][col] = row[col]}

\* The UNIQUE columns on which row, stored under id, collides with another
\* row of tbl.
ViolatedColumns(tbl, id, row) ==
  {col \in UniqueColumns :
     \E o \in DOMAIN tbl \ {id} : tbl[o][col] = row[col]}

\* The value returned to the caller: model.User.
User(id, row) ==
  [id |-> id, username |-> row.username, email |-> row.email,
   full_name |-> row.full_name, created_at |-> row.created_at,
   updated_at |-> row.updated_at]

\* A nil *model.User.
NoUser ==
  [id |-> -1, username |-> <<>>, email |-> <<>>, full_name |-> <<>>,
   created_at |-> -1, updated_at |-> -1]

\* A pointer field of UpdateUserRequest: nil, or a value.
Absent == [present |-> FALSE, v |-> <<>>]

Some(s) == [present |-> TRUE, v |-> s]

Request(username, email, full_name) ==
  [username |-> username, email |-> email, full_name |-> full_name]

NoRequest == Request(Absent, Absent, Absent)

\* ------------------------------------------------------------------------
\* Repository (internal/repository/users.go)
\* ------------------------------------------------------------------------
\* A nil []model.User, and the slice append builds from the scanned rows.
UserList(tbl) ==
  [isNil |-> (DOMAIN tbl = {}), items |-> {User(i, tbl[i]) : i \in DOMAIN tbl}]

NoList == [isNil |-> TRUE, items |-> {}]

\* What a repository method leaves behind: the table, the values it returns,
\* the raw error of the driver, the kind of statement it sent and how many
\* statements it sent: every method makes one call of QueryContext,
\* QueryRowContext or ExecContext.
Outcome(tbl, user, list, err, raw, stmt) ==
  [tbl |-> tbl, user |-> user, list |-> list, err |-> err, raw |-> raw,
   stmt |-> stmt, sent |-> 1]

\* GetAll: any error of Query, Scan or rows.Err is returned as it is.
RepoGetAll(tbl, fault) ==
  IF fault # NoFault
    THEN Outcome(tbl, NoUser, NoList, fault, fault, "SELECT")
    ELSE Outcome(tbl, NoUser, UserList(tbl), NoErr, NoErr, "SELECT")

\* The error QueryRow(...).Scan returns for a one-row SELECT.
ScanOne(found, fault) ==
  IF fault # NoFault THEN fault
  ELSE IF found THEN NoErr ELSE SqlErrNoRows

\* Faulty variant: no row is not an error.
ClassifyReadErr_NoRowsIsNil(raw) ==
  IF raw = SqlErrNoRows THEN NoErr ELSE raw

\* The error mapping shared by GetByUsername and GetByID.
ClassifyReadErr(raw) ==
  IF raw = SqlErrNoRows THEN ErrUserNotFound ELSE raw

\* GetByUsername: SELECT ... WHERE username = $1
RepoGetByUsername(tbl, username, fault) ==
  LET ids == {i \in DOMAIN tbl : tbl[i].username = username}
      raw == ScanOne(ids # {}, fault)
  IN IF raw = NoErr
       THEN LET i == CHOOSE i \in ids : TRUE
            IN Outcome(tbl, User(i, tbl[i]), NoList, NoErr, raw, "SELECT")
       ELSE Outcome(tbl, NoUser, NoList, ClassifyReadErr(raw), raw, "SELECT")

\* GetByID: SELECT ... WHERE id = $1
RepoGetByID(tbl, id, fault) ==
  LET raw == ScanOne(id \in DOMAIN tbl, fault)
  IN IF raw = NoErr
       THEN Outcome(tbl, User(id, tbl[id]), NoList, NoErr, raw, "SELECT")
       ELSE Outcome(tbl, NoUser, NoList, ClassifyReadErr(raw), raw, "SELECT")

\* Faulty variant: the branch for the username constraint is missing.
ClassifyCreateErr_EmailOnly(raw) ==
  IF raw.kind = "pq" /\ raw.name = "23505" /\ Contains(raw.msg, Str_email)
    THEN ErrEmailExists
  ELSE raw

\* Create, lines 216-231: 23505 with "username" or "email" in the message
\* becomes a domain error, every other error is returned as it is.
ClassifyCreateErr(raw) ==
  IF raw.kind = "pq" /\ raw.name = "23505" /\ Contains(raw.msg, Str_username)
    THEN ErrUsernameExists
  ELSE IF raw.kind = "pq" /\ raw.name = "23505" /\ Contains(raw.msg, Str_email)
    THEN ErrEmailExists
  ELSE raw

\* The error of the INSERT: the injected fault, else the violation of the
\* constraint col when the new row collides on it (col is one of the
\* violated columns; which one PostgreSQL reports first is its choice).
InsertErr(tbl, id, row, fault, col) ==
  IF fault # NoFault THEN fault
  ELSE IF ViolatedColumns(tbl, id, row) # {} THEN UniqueViolation(col)
  ELSE NoErr

\* Faulty variant: the INSERT has no RETURNING clause, and the user returned
\* is the request with the new id and zero timestamps.
RepoCreate_NoReturning(tbl, id, t, req, fault, col) ==
  LET row == Row(req.username.v, req.email.v, req.full_name.v, t, t)
      raw == InsertErr(tbl, id, row, fault, col)
  IN IF raw = NoErr
       THEN Outcome((id :> row) @@ tbl,
                    User(id, Row(req.username.v, req.email.v,
                                 req.full_name.v, 0, 0)),
                    NoList, NoErr, raw, "INSERT")
       ELSE Outcome(tbl, NoUser, NoList, ClassifyCreateErr(raw), raw, "INSERT")

\* Create: INSERT ... VALUES ($1, $2, $3, CURRENT_TIMESTAMP,
\* CURRENT_TIMESTAMP) RETURNING ...; id is the value of uuid_generate_v4().
RepoCreate(tbl, id, t, req, fault, col) ==
  LET row == Row(req.username.v, req.email.v, req.full_name.v, t, t)
      raw == InsertErr(tbl, id, row, fault, col)
  IN IF raw = NoErr
       THEN Outcome((id :> row) @@ tbl, User(id, row), NoList, NoErr, raw,
                    "INSERT")
       ELSE Outcome(tbl, NoUser, NoList, ClassifyCreateErr(raw), raw, "INSERT")

\* Faulty variant: the email clause is appended before the username clause.
SetClauses_EmailFirst(req) ==
  LET u == IF req.username.present
             THEN <<[col |-> "username", val |-> req.username.v]>> ELSE <<>>
      e == IF req.email.present
             THEN <<[col |-> "email", val |-> req.email.v]>> ELSE <<>>
      f == IF req.full_name.present
             THEN <<[col |-> "full_name", val |-> req.full_name.v]>> ELSE <<>>
      present == e \o u \o f
  IN [i \in 1..Len(present) |->
        [col |-> present[i].col, pos |-> i, val |-> present[i].val]]

\* Update, lines 238-256: one clause and one argument per present field, in
\* the order username, email, full_name.
SetClauses(req) ==
  LET u == IF req.username.present
             THEN <<[col |-> "username", val |-> req.username.v]>> ELSE <<>>
      e == IF req.email.present
             THEN <<[col |-> "email", val |-> req.email.v]>> ELSE <<>>
      f == IF req.full_name.present
             THEN <<[col |-> "full_name", val |-> req.full_name.v]>> ELSE <<>>
      present == u \o e \o f
  IN [i \in 1..Len(present) |->
        [col |-> present[i].col, pos |-> i, val |-> present[i].val]]

\* Faulty variant: the statement also assigns created_at = CURRENT_TIMESTAMP.
BuildUpdate_RefreshesCreatedAt(id, req) ==
  LET set == SetClauses(req)
      argPosition == Len(set) + 1
  IN [updates |-> [i \in 1..Len(set) |-> [col |-> set[i].col, pos |-> set[i].pos]]
                  \o <<[col |-> "created_at", pos |-> 0],
                       [col |-> "updated_at", pos |-> 0]>>,
      wherePos |-> argPosition,
      args |-> [i \in 1..Len(set) |-> set[i].val] \o <<id>>]

\* Faulty variant: the statement does not assign updated_at.
BuildUpdate_NoRefresh(id, req) ==
  LET set == SetClauses(req)
      argPosition == Len(set) + 1
  IN [updates |-> [i \in 1..Len(set) |-> [col |-> set[i].col, pos |-> set[i].pos]],
      wherePos |-> argPosition,
      args |-> [i \in 1..Len(set) |-> set[i].val] \o <<id>>]

\* Update, lines 263-271: the statement text as its list of assignments
\* (pos 0 marks CURRENT_TIMESTAMP), the position of the id in WHERE id = $n,
\* and the argument list.
BuildUpdate(id, req) ==
  LET set == SetClauses(req)
      argPosition == Len(set) + 1
  IN [updates |-> [i \in 1..Len(set) |-> [col |-> set[i].col, pos |-> set[i].pos]]
                  \o <<[col |-> "updated_at", pos |-> 0]>>,
      wherePos |-> argPosition,
      args |-> [i \in 1..Len(set) |-> set[i].val] \o <<id>>]

\* The value a column takes under the assignments of the statement q.
Assigned(q, col, old, t) ==
  LET hits == {i \in 1..Len(q.updates) : q.updates[i].col = col}
  IN IF hits = {} THEN old
     ELSE LET i == CHOOSE i \in hits : \A j \in hits : j <= i
          IN IF q.updates[i].pos = 0 THEN t ELSE q.args[q.updates[i].pos]

\* The row UPDATE ... SET q.updates writes over old.
UpdatedRow(q, old, t) ==
  Row(Assigned(q, "username", old.username, t),
      Assigned(q, "email", old.email, t),
      Assigned(q, "full_name", old.full_name, t),
      Assigned(q, "created_at", old.created_at, t),
      Assigned(q, "updated_at", old.updated_at, t))

\* Faulty variant: sql.ErrNoRows is not translated.
ClassifyUpdateErr_NoRowsRaw(raw) ==
  IF raw.kind = "pq" /\ raw.name = "23505" /\ Contains(raw.msg, Str_username)
    THEN ErrUsernameExists
  ELSE IF raw.kind = "pq" /\ raw.name = "23505" /\ Contains(raw.msg, Str_email)
    THEN ErrEmailExists
  ELSE raw

\* Faulty variant: the username branch looks for "user", which every
\* constraint name of the users table contains.
ClassifyUpdateErr_UserSubstring(raw) ==
  IF raw = SqlErrNoRows THEN ErrUserNotFound
  ELSE IF raw.kind = "pq" /\ raw.name = "23505"
          /\ Contains(raw.msg, <<"u","s","e","r">>)
    THEN ErrUsernameExists
  ELSE IF raw.kind = "pq" /\ raw.name = "23505" /\ Contains(raw.msg, Str_email)
    THEN ErrEmailExists
  ELSE raw

\* Update, lines 280-298.
ClassifyUpdateErr(raw) ==
  IF raw = SqlErrNoRows THEN ErrUserNotFound
  ELSE IF raw.kind = "pq" /\ raw.name = "23505" /\ Contains(raw.msg, Str_username)
    THEN ErrUsernameExists
  ELSE IF raw.kind = "pq" /\ raw.name = "23505" /\ Contains(raw.msg, Str_email)
    THEN ErrEmailExists
  ELSE raw

\* The error of UPDATE ... WHERE id = $n RETURNING ...
UpdateErr(tbl, id, row, fault, col) ==
  IF fault # NoFault THEN fault
  ELSE IF id \notin DOMAIN tbl THEN SqlErrNoRows
  ELSE IF ViolatedColumns(tbl, id, row) # {} THEN UniqueViolation(col)
  ELSE NoErr

\* Faulty variant: an UPDATE that matches no row inserts one under the id.
RepoUpdateWrite_Upsert(tbl, id, t, req, fault, col) ==
  LET q == BuildUpdate(id, req)
      target == q.args[q.wherePos]
      row == UpdatedRow(q, IF target \in DOMAIN tbl THEN tbl[target]
                           ELSE Row(<<>>, <<>>, <<>>, t, t), t)
  IN IF fault # NoFault
       THEN Outcome(tbl, NoUser, NoList, ClassifyUpdateErr(fault), fault,
                    "UPDATE")
     ELSE IF ViolatedColumns(tbl, target, row) # {}
       THEN Outcome(tbl, NoUser, NoList,
                    ClassifyUpdateErr(UniqueViolation(col)),
                    UniqueViolation(col), "UPDATE")
     ELSE Outcome((target :> row) @@ tbl, User(target, row), NoList, NoErr,
                  NoErr, "UPDATE")

\* Update, lines 258-301, for a request with at least one field.
RepoUpdateWrite(tbl, id, t, req, fault, col) ==
  LET q == BuildUpdate(id, req)
      target == q.args[q.wherePos]
      row == IF target \in DOMAIN tbl THEN UpdatedRow(q, tbl[target], t)
             ELSE Row(<<>>, <<>>, <<>>, t, t)
      raw == UpdateErr(tbl, target, row, fault, col)
  IN IF raw = NoErr
       THEN Outcome([tbl EXCEPT ![target] = row], User(target, row), NoList,
                    NoErr, raw, "UPDATE")
       ELSE Outcome(tbl, NoUser, NoList, ClassifyUpdateErr(raw), raw, "UPDATE")

\* Faulty variant: an empty request is not short-circuited and the statement
\* with only the updated_at clause is sent.
RepoUpdate_AlwaysWrite(tbl, id, t, req, fault, col) ==
  RepoUpdateWrite(tbl, id, t, req, fault, col)

\* Update: with no field present it is GetByID (lines 258-261).
RepoUpdate(tbl, id, t, req, fault, col) ==
  IF Len(SetClauses(req)) = 0
    THEN RepoGetByID(tbl, id, fault)
    ELSE RepoUpdateWrite(tbl, id, t, req, fault, col)

\* Faulty variant: the row is kept (marked deleted in a column the lookups
\* do not read) and success is returned.
RepoDelete_SoftDelete(tbl, id, fault) ==
  IF fault # NoFault
    THEN Outcome(tbl, NoUser, NoList, fault, fault, "DELETE")
  ELSE IF id \notin DOMAIN tbl
    THEN Outcome(tbl, NoUser, NoList, ErrUserNotFound, NoErr, "DELETE")
  ELSE Outcome(tbl, NoUser, NoList, NoErr, NoErr, "DELETE")

\* Faulty variant: a DELETE that failed is sent a second time, and the
\* second attempt goes through.
RepoDelete_RetriesOnce(tbl, id, fault) ==
  IF fault # NoFault
    THEN [Outcome([i \in DOMAIN tbl \ {id} |-> tbl[i]], NoUser, NoList,
                  IF id \in DOMAIN tbl THEN NoErr ELSE ErrUserNotFound,
                  fault, "DELETE")
            EXCEPT !.sent = 2]
  ELSE IF id \notin DOMAIN tbl
    THEN Outcome(tbl, NoUser, NoList, ErrUserNotFound, NoErr, "DELETE")
  ELSE Outcome([i \in DOMAIN tbl \ {id} |-> tbl[i]], NoUser, NoList, NoErr,
               NoErr, "DELETE")

\* Faulty variant: zero rows affected is reported as success.
RepoDelete_AbsentIsSuccess(tbl, id, fault) ==
  IF fault # NoFault
    THEN Outcome(tbl, NoUser, NoList, fault, fault, "DELETE")
  ELSE Outcome([i \in DOMAIN tbl \ {id} |-> tbl[i]], NoUser, NoList, NoErr,
               NoErr, "DELETE")

\* Faulty variant: the failure is reported after the row was removed.
RepoDelete_FailsAfterDeleting(tbl, id, fault) ==
  IF id \notin DOMAIN tbl
    THEN Outcome(tbl, NoUser, NoList,
                 IF fault # NoFault THEN fault ELSE ErrUserNotFound, fault,
                 "DELETE")
  ELSE Outcome([i \in DOMAIN tbl \ {id} |-> tbl[i]], NoUser, NoList, fault,
               fault, "DELETE")

\* Delete: DELETE FROM users WHERE id = $1; zero rows affected is
\* ErrUserNotFound.  RowsAffected of lib/pq's result cannot fail, so the
\* only failure is that of ExecContext.
RepoDelete(tbl, id, fault) ==
  IF fault # NoFault
    THEN Outcome(tbl, NoUser, NoList, fault, fault, "DELETE")
  ELSE IF id \notin DOMAIN tbl
    THEN Outcome(tbl, NoUser, NoList, ErrUserNotFound, NoErr, "DELETE")
  ELSE Outcome([i \in DOMAIN tbl \ {id} |-> tbl[i]], NoUser, NoList, NoErr,
               NoErr, "DELETE")

\* ------------------------------------------------------------------------
\* Service (internal/service/users.go)
\* ------------------------------------------------------------------------
\* strings.TrimSpace(strings.ToLower(x)), applied to username and email.
NormalizeIdentity(s) == TrimSpace(ToLower(s))

\* validateFullName
validateFullName(fullName) ==
  IF ~MatchFullNamePattern(fullName) THEN Wrap(ErrInvalidInput) ELSE NoErr

\* Faulty variant: the username is trimmed but not lower-cased.
NormalizeCreate_NoLower(arg) ==
  Request(Some(TrimSpace(arg.username.v)),
          Some(NormalizeIdentity(arg.email.v)),
          Some(TrimSpace(arg.full_name.v)))

\* Create, lines 146-149: the request after normalisation.
NormalizeCreate(arg) ==
  Request(Some(NormalizeIdentity(arg.username.v)),
          Some(NormalizeIdentity(arg.email.v)),
          Some(TrimSpace(arg.full_name.v)))

\* Faulty variant: the email is passed on as it came.
NormalizeUpdate_EmailAsIs(arg) ==
  Request(IF arg.username.present
            THEN Some(NormalizeIdentity(arg.username.v)) ELSE Absent,
          arg.email,
          IF arg.full_name.present
            THEN Some(TrimSpace(arg.full_name.v)) ELSE Absent)

\* Update, lines 178-190: only the fields that are present are normalised.
NormalizeUpdate(arg) ==
  Request(IF arg.username.present
            THEN Some(NormalizeIdentity(arg.username.v)) ELSE Absent,
          IF arg.email.present
            THEN Some(NormalizeIdentity(arg.email.v)) ELSE Absent,
          IF arg.full_name.present
            THEN Some(TrimSpace(arg.full_name.v)) ELSE Absent)

\* Faulty variant: the full name is validated whether present or not.
ValidateUpdate_Always(req) == validateFullName(req.full_name.v)

\* Update, lines 187-195: the full name is validated only when present.
ValidateUpdate(req) ==
  IF req.full_name.present THEN validateFullName(req.full_name.v) ELSE NoErr

\* Faulty variant: an error that is none of the domain errors is replaced
\* by ErrDatabaseOperation.
ServiceReturn_Reclassifies(op, o) ==
  [user |-> o.user, list |-> o.list,
   err |-> IF o.err \in {NoErr, ErrUserNotFound, ErrUsernameExists,
                         ErrEmailExists}
             THEN o.err ELSE ErrDatabaseOperation]

\* What the method op of the service returns for the outcome o of its
\* repository call: GetAll and Delete return the repository's values
\* directly; the others `nil, err` on an error and `user, nil` otherwise.
ServiceReturn(op, o) ==
  IF op \in {"GetAll", "Delete"}
    THEN [user |-> o.user, list |-> o.list, err |-> o.err]
  ELSE IF o.err # NoErr
    THEN [user |-> NoUser, list |-> NoList, err |-> o.err]
  ELSE [user |-> o.user, list |-> NoList, err |-> NoErr]

\* ------------------------------------------------------------------------
\* Controller (internal/controller/users.go)
\* ------------------------------------------------------------------------
\* The :id path parameter: a string uuid.Parse accepts, standing for the
\* identity id, or one it rejects.
IdParam(id) == [wellFormed |-> TRUE, id |-> id]

MalformedIdParam == [wellFormed |-> FALSE, id |-> AbsentId]

StatusBadRequest == 400

StatusNoContent == 204

StatusInternalServerError == 500

StatusNotFound == 404

StatusOK == 200

StatusCreated == 201

StatusConflict == 409

\* GetAllUsers, lines 48-56.
GetAllStatus(err) ==
  IF err # NoErr THEN StatusInternalServerError ELSE StatusOK

\* GetUserByUsername, lines 61-77.
GetByUsernameStatus(err) ==
  IF err = NoErr THEN StatusOK
  ELSE IF Is(err, ErrUserNotFound) THEN StatusNotFound
  ELSE StatusInternalServerError

\* GetUserByID, lines 91-107.
GetByIDStatus(err) ==
  IF err = NoErr THEN StatusOK
  ELSE IF Is(err, ErrUserNotFound) THEN StatusNotFound
  ELSE StatusInternalServerError

\* Faulty variant: ErrInvalidInput is not singled out.
CreateStatus_InvalidInputIs500(err) ==
  IF err = NoErr THEN StatusCreated
  ELSE IF Is(err, ErrUsernameExists) THEN StatusConflict
  ELSE IF Is(err, ErrEmailExists) THEN StatusConflict
  ELSE StatusInternalServerError

\* CreateUser, lines 134-170.
CreateStatus(err) ==
  IF err = NoErr THEN StatusCreated
  ELSE IF Is(err, ErrUsernameExists) THEN StatusConflict
  ELSE IF Is(err, ErrEmailExists) THEN StatusConflict
  ELSE IF Is(err, ErrInvalidInput) THEN StatusBadRequest
  ELSE StatusInternalServerError

\* UpdateUser, lines 204-246.
UpdateStatus(err) ==
  IF err = NoErr THEN StatusOK
  ELSE IF Is(err, ErrUserNotFound) THEN StatusNotFound
  ELSE IF Is(err, ErrUsernameExists) THEN StatusConflict
  ELSE IF Is(err, ErrEmailExists) THEN StatusConflict
  ELSE IF Is(err, ErrInvalidInput) THEN StatusBadRequest
  ELSE StatusInternalServerError

\* Faulty variant: ErrUserNotFound is answered like in the other handlers.
DeleteStatus_NotFound404(err) ==
  IF err = NoErr THEN StatusNoContent
  ELSE IF Is(err, ErrUserNotFound) THEN StatusNotFound
  ELSE StatusInternalServerError

\* DeleteUser, lines 264-284: the status for the error of service.Delete.
DeleteStatus(err) ==
  IF err = NoErr THEN StatusNoContent
  ELSE IF Is(err, ErrUserNotFound) THEN StatusNoContent
  ELSE StatusInternalServerError

\* ------------------------------------------------------------------------
\* Middleware (internal/middleware/auth.go), installed by main with
\* r.Use(middleware.APIKeyAuth()) before handler.New registers the routes
\* ------------------------------------------------------------------------
StatusUnauthorized == 401

StatusForbidden == 403

StatusServiceUnavailable == 503

\* The value of os.Getenv and of c.GetHeader for a variable or header that
\* is not set.
NoKey == <<>>

\* Faulty variant: a request without the header is let through.
APIKeyAuth_MissingHeaderPasses(expectedKey, providedKey) ==
  IF expectedKey = NoKey THEN [next |-> TRUE, status |-> 0]
  ELSE IF providedKey = NoKey THEN [next |-> TRUE, status |-> 0]
  ELSE IF providedKey # expectedKey
    THEN [next |-> FALSE, status |-> StatusForbidden]
  ELSE [next |-> TRUE, status |-> 0]

\* APIKeyAuth, lines 13-43: whether the request goes on to the next handler
\* (c.Next) and, when it is aborted, the status written.
APIKeyAuth(expectedKey, providedKey) ==
  IF expectedKey = NoKey THEN [next |-> TRUE, status |-> 0]
  ELSE IF providedKey = NoKey
    THEN [next |-> FALSE, status |-> StatusUnauthorized]
  ELSE IF providedKey # expectedKey
    THEN [next |-> FALSE, status |-> StatusForbidden]
  ELSE [next |-> TRUE, status |-> 0]

\* The status the handler of op answers for the error err of its service
\* call.
HandlerStatus(op, err) ==
  CASE op = "GetAll" -> GetAllStatus(err)
    [] op = "GetByUsername" -> GetByUsernameStatus(err)
    [] op = "GetByID" -> GetByIDStatus(err)
    [] op = "Create" -> CreateStatus(err)
    [] op = "Update" -> UpdateStatus(err)
    [] op = "Delete" -> DeleteStatus(err)

\* ------------------------------------------------------------------------
\* State
\* ------------------------------------------------------------------------
VARIABLES
  users,    \* the users table: identity -> row
  nextId,   \* the identity uuid_generate_v4() hands out next
  now,      \* CURRENT_TIMESTAMP
  ops,      \* number of calls started so far
  proc,     \* per client: the call it is in, or the one it last finished
  main      \* the process: where func main is, and what it has closed

vars == <<users, nextId, now, ops, proc, main>>

\* The exit status of os.Exit(1), and that of a return from main.
ExitFailure == 1

ExitSuccess == 0

\* func main once the server listens: waiting on the quit channel, with the
\* database connection open.
Serving ==
  [pc |-> "serving", signal |-> "none", shutdownErr |-> FALSE,
   dbClosed |-> FALSE, closeErr |-> FALSE, exited |-> FALSE,
   code |-> ExitSuccess]

\* A client between calls.
Idle ==
  [pc |-> "idle", op |-> "none", http |-> FALSE, call |-> 0,
   idParam |-> IdParam(AbsentId), id |-> AbsentId, arg |-> NoRequest,
   req |-> NoRequest, repoCalls |-> 0, stmt |-> "none", sent |-> 0,
   inflight |-> {},
   raw |-> NoErr, repoErr |-> NoErr, repoUser |-> NoUser,
   repoList |-> NoList, err |-> NoErr, user |-> NoUser, list |-> NoList,
   status |-> 0, apiKey |-> NoKey, header |-> NoKey, handlerRan |-> FALSE]

\* A call that has reached the repository and waits for its statement.
InRepo(op, http, id, arg, req) ==
  [Idle EXCEPT !.pc = "repo", !.op = op, !.http = http, !.call = ops + 1,
               !.idParam = IdParam(id), !.id = id, !.arg = arg, !.req = req,
               !.repoCalls = 1]

\* A call the service ended with err before any repository call; a handler
\* answers it with the status for err.
Rejected(op, http, id, arg, err) ==
  [Idle EXCEPT !.pc = "done", !.op = op, !.http = http, !.call = ops + 1,
               !.idParam = IdParam(id), !.id = id, !.arg = arg, !.err = err,
               !.status = IF http THEN HandlerStatus(op, err) ELSE 0]

\* A request the handler of op answers 400 without calling the service: its
\* :id is malformed or its body does not bind.
BadRequest(op, idParam) ==
  [Idle EXCEPT !.pc = "done", !.op = op, !.http = TRUE, !.call = ops + 1,
               !.idParam = idParam, !.id = idParam.id,
               !.status = StatusBadRequest]

\* A request on its way through the engine's handler chain: with API_KEY
\* apiKey and X-API-Key header, APIKeyAuth either aborts it with its status
\* or passes it to the route's handler, whose effect on the client is r.
Through(apiKey, header, op, r) ==
  IF APIKeyAuth(apiKey, header).next
    THEN [r EXCEPT !.apiKey = apiKey, !.header = header, !.handlerRan = TRUE]
    ELSE [Idle EXCEPT !.pc = "done", !.op = op, !.http = TRUE,
                      !.call = ops + 1, !.apiKey = apiKey, !.header = header,
                      !.status = APIKeyAuth(apiKey, header).status]

\* The call of client c after its statement: the repository returned o, the
\* service returns ServiceReturn of it and, for a call that came through a
\* controller, the handler answers with the status for the service's error.
Returned(c, o) ==
  [proc[c] EXCEPT !.pc = "done", !.stmt = o.stmt, !.sent = o.sent,
                  !.raw = o.raw,
                  !.repoErr = o.err, !.repoUser = o.user,
                  !.repoList = o.list,
                  !.err = ServiceReturn(proc[c].op, o).err,
                  !.user = ServiceReturn(proc[c].op, o).user,
                  !.list = ServiceReturn(proc[c].op, o).list,
                  !.status = IF proc[c].http
                               THEN HandlerStatus(proc[c].op,
                                      ServiceReturn(proc[c].op, o).err)
                               ELSE 0,
                  !.inflight = {proc[d].call : d \in {d \in Clients \ {c} :
                                                      proc[d].pc = "repo"}}]

Init ==
  /\ users = SeedUsers
  /\ nextId = 4
  /\ now = 0
  /\ ops = 0
  /\ proc = [c \in Clients |-> Idle]
  /\ main = Serving

\* ------------------------------------------------------------------------
\* Inputs of the calls
\* ------------------------------------------------------------------------
Str_bob == <<"b","o","b">>

Str_bob_mail == <<"b","o","b","@","x",".","c","o","m">>

Str_b2_mail == <<"b","2","@","x",".","c","o","m">>

\* One caller at a time, with un-normalised and invalid inputs and every
\* storage fault.
SeqInputs ==
  [clients |-> {"c1"},
   maxOps |-> MaxOps,
   seedIds |-> {1},
   createUsernames |-> {<<" ","B","o","b"," ">>, <<"J","D","o","e">>},
   createEmails |-> {<<"B","o","b","@","X",".","c","o","m">>,
                     Str_jdoe \o Str_example_com},
   createFullNames |-> {<<"B","o","b">>, <<"J","o","h","n","1","2","3">>,
                        <<" ">>},
   updateUsernames |-> {Absent, Some(<<"A","s","m","i","t","h">>)},
   updateEmails |-> {Absent, Some(<<" ","B","o","b","@","X",".","c","o","m">>)},
   updateFullNames |-> {Absent, Some(<<" ","A","l","-","O","'","x"," ">>),
                        Some(<<"J","1">>)},
   lookupUsernames |-> {<<"J","D","o","e"," ">>, Str_bob},
   readFaults |-> ReadFaults,
   writeFaults |-> WriteFaults,
   apiKeys |-> {NoKey},
   headers |-> {NoKey}]

\* Two concurrent callers racing for the same username, email and identity;
\* reads and deletes may lose their connection.
RaceInputs ==
  [clients |-> Clients,
   maxOps |-> MaxRaceOps,
   seedIds |-> {1},
   createUsernames |-> {Str_bob},
   createEmails |-> {Str_bob_mail, Str_b2_mail},
   createFullNames |-> {<<"B","o","b">>},
   updateUsernames |-> {Absent, Some(Str_bob)},
   updateEmails |-> {Absent, Some(Str_b2_mail)},
   updateFullNames |-> {Absent},
   lookupUsernames |-> {Str_bob},
   readFaults |-> {NoFault, DriverBadConn},
   writeFaults |-> {NoFault},
   apiKeys |-> {NoKey},
   headers |-> {NoKey}]

\* Two callers that create bob, read users by id and rename them, at
\* different times; a read may lose its connection.
RoundTripInputs ==
  [clients |-> Clients,
   maxOps |-> MaxRaceOps,
   seedIds |-> {1},
   createUsernames |-> {<<" ","B","o","b"," ">>},
   createEmails |-> {<<"B","o","b","@","X",".","c","o","m">>},
   createFullNames |-> {<<"B","o","b">>},
   updateUsernames |-> {Absent},
   updateEmails |-> {Absent},
   updateFullNames |-> {Some(<<"A","l">>)},
   lookupUsernames |-> {Str_bob},
   readFaults |-> {NoFault, DriverBadConn},
   writeFaults |-> {NoFault},
   apiKeys |-> {NoKey},
   headers |-> {NoKey}]

\* The characters of the strings tried: a lower-case letter, an upper-case
\* letter and a whitespace character.
Alphabet == {"a", "B", " "}

\* Every string over Alphabet of at most MaxStrLen characters.
Strings == UNION {[1..k -> Alphabet] : k \in 0..MaxStrLen}

\* One call per behaviour, its username, email or full name any string.
NormInputs ==
  [clients |-> {"c1"},
   maxOps |-> 1,
   seedIds |-> {1},
   createUsernames |-> Strings,
   createEmails |-> {<<"B","o","b","@","X",".","c","o","m">>},
   createFullNames |-> {<<"B","o","b">>},
   updateUsernames |-> {Absent},
   updateEmails |-> {Absent} \cup {Some(x) : x \in Strings},
   updateFullNames |-> {Absent} \cup {Some(x) : x \in Strings},
   lookupUsernames |-> Strings,
   readFaults |-> {NoFault},
   writeFaults |-> {NoFault},
   apiKeys |-> {NoKey},
   headers |-> {NoKey}]

\* Requests to the HTTP handlers, one at a time: bodies that bind, with
\* taken and free usernames and emails and an invalid full name, and
\* statements that fail.
HttpInputs ==
  [clients |-> {"c1"},
   maxOps |-> MaxOps,
   seedIds |-> {1},
   createUsernames |-> {<<"B","o","b">>, <<"J","D","o","e">>},
   createEmails |-> {<<"B","o","b","@","X",".","c","o","m">>},
   createFullNames |-> {<<"B","o","b">>, <<"J","o","h","n","1","2","3">>},
   updateUsernames |-> {Absent, Some(<<"A","s","m","i","t","h">>)},
   updateEmails |-> {Absent, Some(<<"B","o","b","@","X",".","c","o","m">>)},
   updateFullNames |-> {Absent, Some(<<"J","1">>)},
   lookupUsernames |-> {<<"J","D","o","e">>, Str_bob},
   readFaults |-> {NoFault, DriverBadConn},
   writeFaults |-> {NoFault, QueryCanceled, UnknownUniqueViolation},
   apiKeys |-> {NoKey},
   headers |-> {NoKey}]

\* Two callers that delete users, look them up and create jdoe again.
HardDeleteInputs ==
  [clients |-> Clients,
   maxOps |-> MaxRaceOps,
   seedIds |-> {1},
   createUsernames |-> {<<"J","D","o","e">>},
   createEmails |-> {Str_jdoe \o Str_example_com},
   createFullNames |-> {<<"J","o","h","n"," ","D","o","e">>},
   updateUsernames |-> {Absent},
   updateEmails |-> {Absent},
   updateFullNames |-> {Absent},
   lookupUsernames |-> {Str_jdoe},
   readFaults |-> {NoFault, DriverBadConn},
   writeFaults |-> {NoFault},
   apiKeys |-> {NoKey},
   headers |-> {NoKey}]

\* The keys the environment and a request can carry: the configured key and
\* another one.
Key_secret == <<"k","1">>

Key_other == <<"k","2">>

\* Requests to every route, with API_KEY unset or set and the X-API-Key
\* header missing, matching or different.
AuthInputs ==
  [clients |-> {"c1"},
   maxOps |-> MaxOps,
   seedIds |-> {1},
   createUsernames |-> {<<"B","o","b">>},
   createEmails |-> {<<"B","o","b","@","X",".","c","o","m">>},
   createFullNames |-> {<<"B","o","b">>},
   updateUsernames |-> {Absent},
   updateEmails |-> {Absent},
   updateFullNames |-> {Some(<<"B","o","b">>)},
   lookupUsernames |-> {Str_bob},
   readFaults |-> {NoFault},
   writeFaults |-> {NoFault},
   apiKeys |-> {NoKey, Key_secret},
   headers |-> {NoKey, Key_secret, Key_other}]

\* One caller that lists the users, deletes any of them and creates one.
ListInputs ==
  [clients |-> {"c1"},
   maxOps |-> MaxListOps,
   seedIds |-> {1, 2, 3},
   createUsernames |-> {<<"B","o","b">>},
   createEmails |-> {<<"B","o","b","@","X",".","c","o","m">>},
   createFullNames |-> {<<"B","o","b">>},
   updateUsernames |-> {Absent},
   updateEmails |-> {Absent},
   updateFullNames |-> {Absent},
   lookupUsernames |-> {Str_bob},
   readFaults |-> {NoFault, DriverBadConn},
   writeFaults |-> {NoFault},
   apiKeys |-> {NoKey},
   headers |-> {NoKey}]

\* Two callers whose requests are under way when the process is told to
\* stop.
ShutdownInputs ==
  [clients |-> Clients,
   maxOps |-> MaxOps,
   seedIds |-> {1},
   createUsernames |-> {<<"B","o","b">>},
   createEmails |-> {<<"B","o","b","@","X",".","c","o","m">>},
   createFullNames |-> {<<"B","o","b">>},
   updateUsernames |-> {Absent},
   updateEmails |-> {Absent},
   updateFullNames |-> {Absent},
   lookupUsernames |-> {Str_bob},
   readFaults |-> {NoFault},
   writeFaults |-> {NoFault},
   apiKeys |-> {NoKey},
   headers |-> {NoKey}]

\* A client may start a call when it has none in progress.
CanBegin(c, in) ==
  /\ c \in in.clients /\ proc[c].pc \in {"idle", "done"} /\ ops < in.maxOps
  /\ main.pc \in {"serving", "signalled"}

\* Identities a caller can name: one it saw created, a seeded one, or one
\* that never existed.
TargetIds(in) == {AbsentId} \cup in.seedIds \cup (4..(nextId - 1))

\* ------------------------------------------------------------------------
\* Calls: the part of each handler that runs before the statement
\* ------------------------------------------------------------------------
\* service.GetByUsername up to the repository call: the username is
\* normalised before the lookup.
GetByUsernameCall(http, u) ==
  InRepo("GetByUsername", http, AbsentId, Request(Some(u), Absent, Absent),
         Request(Some(NormalizeIdentity(u)), Absent, Absent))

\* service.Create up to the repository call: normalise, validate the full
\* name, and return the validation error without calling the repository.
CreateCall(http, arg) ==
  LET req == NormalizeCreate(arg)
      verr == validateFullName(req.full_name.v)
  IN IF verr # NoErr THEN Rejected("Create", http, AbsentId, arg, verr)
     ELSE InRepo("Create", http, AbsentId, arg, req)

\* service.Update up to the repository call.
UpdateCall(http, id, arg) ==
  LET req == NormalizeUpdate(arg)
      verr == ValidateUpdate(req)
  IN IF verr # NoErr THEN Rejected("Update", http, id, arg, verr)
     ELSE InRepo("Update", http, id, arg, req)

\* service.GetAll
GetAll(c, in) ==
  /\ CanBegin(c, in)
  /\ proc' = [proc EXCEPT ![c] = InRepo("GetAll", FALSE, AbsentId, NoRequest,
                                        NoRequest)]
  /\ ops' = ops + 1
  /\ UNCHANGED <<users, nextId, now, main>>

\* service.GetByUsername
GetByUsername(c, in) ==
  /\ CanBegin(c, in)
  /\ \E u \in in.lookupUsernames :
       proc' = [proc EXCEPT ![c] = GetByUsernameCall(FALSE, u)]
  /\ ops' = ops + 1
  /\ UNCHANGED <<users, nextId, now, main>>

\* service.GetByID
GetByID(c, in) ==
  /\ CanBegin(c, in)
  /\ \E id \in TargetIds(in) :
       proc' = [proc EXCEPT ![c] = InRepo("GetByID", FALSE, id, NoRequest,
                                          NoRequest)]
  /\ ops' = ops + 1
  /\ UNCHANGED <<users, nextId, now, main>>

\* service.Create
Create(c, in) ==
  /\ CanBegin(c, in)
  /\ \E u \in in.createUsernames, e \in in.createEmails,
        f \in in.createFullNames :
       proc' = [proc EXCEPT ![c] =
                  CreateCall(FALSE, Request(Some(u), Some(e), Some(f)))]
  /\ ops' = ops + 1
  /\ UNCHANGED <<users, nextId, now, main>>

\* service.Update
Update(c, in) ==
  /\ CanBegin(c, in)
  /\ \E id \in TargetIds(in), u \in in.updateUsernames,
        e \in in.updateEmails, f \in in.updateFullNames :
       proc' = [proc EXCEPT ![c] = UpdateCall(FALSE, id, Request(u, e, f))]
  /\ ops' = ops + 1
  /\ UNCHANGED <<users, nextId, now, main>>

\* service.Delete
Delete(c, in) ==
  /\ CanBegin(c, in)
  /\ \E id \in TargetIds(in) :
       proc' = [proc EXCEPT ![c] = InRepo("Delete", FALSE, id, NoRequest,
                                          NoRequest)]
  /\ ops' = ops + 1
  /\ UNCHANGED <<users, nextId, now, main>>

\* The :id parameters a request can carry.
IdParams(in) == {MalformedIdParam} \cup {IdParam(id) : id \in TargetIds(in)}

\* controller.GetAllUsers up to the repository call, behind the engine's
\* middleware.
GetAllUsers(c, in) ==
  /\ CanBegin(c, in)
  /\ \E k \in in.apiKeys, h \in in.headers :
       proc' = [proc EXCEPT ![c] =
                  Through(k, h, "GetAll",
                          InRepo("GetAll", TRUE, AbsentId, NoRequest,
                                 NoRequest))]
  /\ ops' = ops + 1
  /\ UNCHANGED <<users, nextId, now, main>>

\* controller.GetUserByUsername up to the repository call.
GetUserByUsername(c, in) ==
  /\ CanBegin(c, in)
  /\ \E k \in in.apiKeys, h \in in.headers, u \in in.lookupUsernames :
       proc' = [proc EXCEPT ![c] =
                  Through(k, h, "GetByUsername", GetByUsernameCall(TRUE, u))]
  /\ ops' = ops + 1
  /\ UNCHANGED <<users, nextId, now, main>>

\* controller.GetUserByID up to the repository call: a malformed id is
\* answered 400 without calling the service.
GetUserByID(c, in) ==
  /\ CanBegin(c, in)
  /\ \E k \in in.apiKeys, h \in in.headers, p \in IdParams(in) :
       proc' = [proc EXCEPT ![c] =
                  Through(k, h, "GetByID",
                          IF ~p.wellFormed THEN BadRequest("GetByID", p)
                          ELSE InRepo("GetByID", TRUE, p.id, NoRequest,
                                      NoRequest))]
  /\ ops' = ops + 1
  /\ UNCHANGED <<users, nextId, now, main>>

\* controller.CreateUser up to the repository call: a body ShouldBindJSON
\* rejects is answered 400 without calling the service.
CreateUser(c, in) ==
  /\ CanBegin(c, in)
  /\ \E k \in in.apiKeys, h \in in.headers, binds \in BOOLEAN,
        u \in in.createUsernames, e \in in.createEmails,
        f \in in.createFullNames :
       proc' = [proc EXCEPT ![c] =
                  Through(k, h, "Create",
                          IF ~binds
                            THEN BadRequest("Create", IdParam(AbsentId))
                          ELSE CreateCall(TRUE, Request(Some(u), Some(e),
                                                        Some(f))))]
  /\ ops' = ops + 1
  /\ UNCHANGED <<users, nextId, now, main>>

\* controller.UpdateUser up to the repository call: a malformed id and a
\* body ShouldBindJSON rejects are answered 400 without calling the service.
UpdateUser(c, in) ==
  /\ CanBegin(c, in)
  /\ \E k \in in.apiKeys, h \in in.headers, p \in IdParams(in),
        binds \in BOOLEAN, u \in in.updateUsernames,
        e \in in.updateEmails, f \in in.updateFullNames :
       proc' = [proc EXCEPT ![c] =
                  Through(k, h, "Update",
                          IF ~p.wellFormed \/ ~binds
                            THEN BadRequest("Update", p)
                          ELSE UpdateCall(TRUE, p.id, Request(u, e, f)))]
  /\ ops' = ops + 1
  /\ UNCHANGED <<users, nextId, now, main>>

\* Faulty variant: the error of uuid.Parse is ignored and the service is
\* called with the zero UUID.
DeleteUser_IgnoresParseError(c, in) ==
  /\ CanBegin(c, in)
  /\ \E k \in in.apiKeys, h \in in.headers, p \in IdParams(in) :
       proc' = [proc EXCEPT ![c] =
                  Through(k, h, "Delete",
                          [InRepo("Delete", TRUE, p.id, NoRequest, NoRequest)
                             EXCEPT !.idParam = p])]
  /\ ops' = ops + 1
  /\ UNCHANGED <<users, nextId, now, main>>

\* controller.DeleteUser up to the repository call: a malformed id is
\* answered 400 without calling the service.
DeleteUser(c, in) ==
  /\ CanBegin(c, in)
  /\ \E k \in in.apiKeys, h \in in.headers, p \in IdParams(in) :
       proc' = [proc EXCEPT ![c] =
                  Through(k, h, "Delete",
                          IF ~p.wellFormed THEN BadRequest("Delete", p)
                          ELSE InRepo("Delete", TRUE, p.id, NoRequest,
                                      NoRequest))]
  /\ ops' = ops + 1
  /\ UNCHANGED <<users, nextId, now, main>>

\* The outcomes of dbConn.DB().Ping() the readiness probe distinguishes.
PingOutcomes == {NoFault, DriverBadConn}

\* A probe answered by its handler with status.
Probed(op, status) ==
  [Idle EXCEPT !.pc = "done", !.op = op, !.http = TRUE, !.call = ops + 1,
               !.status = status]

\* HealthController.LivenessProbe, registered on the engine at /health.
LivenessProbe(c, in) ==
  /\ CanBegin(c, in)
  /\ \E k \in in.apiKeys, h \in in.headers :
       proc' = [proc EXCEPT ![c] =
                  Through(k, h, "Health", Probed("Health", StatusOK))]
  /\ ops' = ops + 1
  /\ UNCHANGED <<users, nextId, now, main>>

\* HealthController.ReadinessProbe, registered on the engine at /ready: 503
\* when the ping of the database fails.
ReadinessProbe(c, in) ==
  /\ CanBegin(c, in)
  /\ \E k \in in.apiKeys, h \in in.headers, ping \in PingOutcomes :
       proc' = [proc EXCEPT ![c] =
                  Through(k, h, "Ready",
                          Probed("Ready",
                                 IF ping = NoFault THEN StatusOK
                                 ELSE StatusServiceUnavailable))]
  /\ ops' = ops + 1
  /\ UNCHANGED <<users, nextId, now, main>>

\* ------------------------------------------------------------------------
\* Statements: the round trip to storage and the return through the layers
\* ------------------------------------------------------------------------
Waiting(c, op) == proc[c].pc = "repo" /\ proc[c].op = op /\ ~main.exited

\* The constraint PostgreSQL may report for a row: any violated one.
Reportable(tbl, id, row) ==
  IF ViolatedColumns(tbl, id, row) = {} THEN {"username"}
  ELSE ViolatedColumns(tbl, id, row)

GetAllStmt(c, in) ==
  /\ Waiting(c, "GetAll")
  /\ \E fault \in in.readFaults :
       proc' = [proc EXCEPT ![c] = Returned(c, RepoGetAll(users, fault))]
  /\ UNCHANGED <<users, nextId, now, ops, main>>

GetByUsernameStmt(c, in) ==
  /\ Waiting(c, "GetByUsername")
  /\ \E fault \in in.readFaults :
       proc' = [proc EXCEPT ![c] =
                  Returned(c, RepoGetByUsername(users, proc[c].req.username.v,
                                                fault))]
  /\ UNCHANGED <<users, nextId, now, ops, main>>

GetByIDStmt(c, in) ==
  /\ Waiting(c, "GetByID")
  /\ \E fault \in in.readFaults :
       proc' = [proc EXCEPT ![c] =
                  Returned(c, RepoGetByID(users, proc[c].id, fault))]
  /\ UNCHANGED <<users, nextId, now, ops, main>>

CreateStmt(c, in) ==
  /\ Waiting(c, "Create")
  /\ LET req == proc[c].req
         row == Row(req.username.v, req.email.v, req.full_name.v, now, now)
     IN \E fault \in in.writeFaults, col \in Reportable(users, nextId, row) :
          LET o == RepoCreate(users, nextId, now, req, fault, col)
          IN /\ users' = o.tbl
             /\ nextId' = IF o.raw = NoErr THEN nextId + 1 ELSE nextId
             /\ proc' = [proc EXCEPT ![c] = Returned(c, o)]
  /\ UNCHANGED <<now, ops, main>>

UpdateStmt(c, in) ==
  /\ Waiting(c, "Update")
  /\ LET req == proc[c].req
         id == proc[c].id
         row == IF id \in DOMAIN users
                  THEN UpdatedRow(BuildUpdate(id, req), users[id], now)
                  ELSE Row(<<>>, <<>>, <<>>, now, now)
     IN \E fault \in (IF Len(SetClauses(req)) = 0 THEN in.readFaults
                      ELSE in.writeFaults),
           col \in (IF id \in DOMAIN users /\ Len(SetClauses(req)) > 0
                      THEN Reportable(users, id, row) ELSE {"username"}) :
          LET o == RepoUpdate(users, id, now, req, fault, col)
          IN /\ users' = o.tbl
             /\ proc' = [proc EXCEPT ![c] = Returned(c, o)]
  /\ UNCHANGED <<nextId, now, ops, main>>

\* repository.Delete, service.Delete and, for a call that came through the
\* controller, the status DeleteUser answers.
DeleteStmt(c, in) ==
  /\ Waiting(c, "Delete")
  /\ \E fault \in in.readFaults :
       LET o == RepoDelete(users, proc[c].id, fault)
       IN /\ users' = o.tbl
          /\ proc' = [proc EXCEPT ![c] = Returned(c, o)]
  /\ UNCHANGED <<nextId, now, ops, main>>

\* Time passes.
\* ------------------------------------------------------------------------
\* func main after the server started (cmd/main.go, graceful shutdown)
\* ------------------------------------------------------------------------
Signals == {"SIGINT", "SIGTERM"}

\* A request handler is running.
InFlight == \E c \in Clients : proc[c].pc = "repo"

\* Faulty variant: the database connection is closed whatever Shutdown
\* returned.
AfterShutdown_ClosesAnyway(m, err) ==
  [m EXCEPT !.pc = "closing", !.shutdownErr = err]

\* main after srv.Shutdown(ctx) returned: os.Exit(1) on an error, on to
\* dbConn.Close() otherwise.
AfterShutdown(m, err) ==
  IF err
    THEN [m EXCEPT !.pc = "exited", !.shutdownErr = TRUE, !.exited = TRUE,
                   !.code = ExitFailure]
    ELSE [m EXCEPT !.pc = "closing"]

\* <-quit: signal.Notify delivered SIGINT or SIGTERM.
Signal ==
  /\ main.pc = "serving"
  /\ \E sig \in Signals : main' = [main EXCEPT !.pc = "signalled",
                                                !.signal = sig]
  /\ UNCHANGED <<users, nextId, now, ops, proc>>

\* srv.Shutdown(ctx) is called: the listener is closed, requests under way
\* go on.
ShutdownCalled ==
  /\ main.pc = "signalled"
  /\ main' = [main EXCEPT !.pc = "shutdown"]
  /\ UNCHANGED <<users, nextId, now, ops, proc>>

\* srv.Shutdown(ctx) returns: nil once no handler is running, an error when
\* the 30 seconds of ctx are over first or a listener fails to close.
ShutdownReturns ==
  /\ main.pc = "shutdown"
  /\ \E err \in BOOLEAN :
       /\ (~err => ~InFlight)
       /\ main' = AfterShutdown(main, err)
  /\ UNCHANGED <<users, nextId, now, ops, proc>>

\* dbConn.Close(): its error is logged and main returns.
CloseDatabase ==
  /\ main.pc = "closing"
  /\ \E err \in BOOLEAN :
       main' = [main EXCEPT !.pc = "stopped", !.dbClosed = TRUE,
                            !.closeErr = err, !.exited = TRUE,
                            !.code = ExitSuccess]
  /\ UNCHANGED <<users, nextId, now, ops, proc>>

Tick ==
  /\ now < MaxClock
  /\ now' = now + 1
  /\ UNCHANGED <<users, nextId, ops, proc, main>>

Next ==
  \/ \E c \in Clients : GetAll(c, SeqInputs)
  \/ \E c \in Clients : GetByUsername(c, SeqInputs)
  \/ \E c \in Clients : GetByID(c, SeqInputs)
  \/ \E c \in Clients : Create(c, SeqInputs)
  \/ \E c \in Clients : Update(c, SeqInputs)
  \/ \E c \in Clients : Delete(c, SeqInputs)
  \/ \E c \in Clients : DeleteUser(c, SeqInputs)
  \/ \E c \in Clients : GetAllStmt(c, SeqInputs)
  \/ \E c \in Clients : GetByUsernameStmt(c, SeqInputs)
  \/ \E c \in Clients : GetByIDStmt(c, SeqInputs)
  \/ \E c \in Clients : CreateStmt(c, SeqInputs)
  \/ \E c \in Clients : UpdateStmt(c, SeqInputs)
  \/ \E c \in Clients : DeleteStmt(c, SeqInputs)
  \/ Tick

\* One caller at a time.
Spec == Init /\ [][Next]_vars

RaceNext ==
  \/ \E c \in Clients : Create(c, RaceInputs)
  \/ \E c \in Clients : Update(c, RaceInputs)
  \/ \E c \in Clients : DeleteUser(c, RaceInputs)
  \/ \E c \in Clients : CreateStmt(c, RaceInputs)
  \/ \E c \in Clients : UpdateStmt(c, RaceInputs)
  \/ \E c \in Clients : DeleteStmt(c, RaceInputs)

\* Two callers whose calls interleave; the race is over before the clock
\* advances.
RaceSpec == Init /\ [][RaceNext]_vars

RoundTripNext ==
  \/ \E c \in Clients : Create(c, RoundTripInputs)
  \/ \E c \in Clients : GetByID(c, RoundTripInputs)
  \/ \E c \in Clients : Update(c, RoundTripInputs)
  \/ \E c \in Clients : CreateStmt(c, RoundTripInputs)
  \/ \E c \in Clients : GetByIDStmt(c, RoundTripInputs)
  \/ \E c \in Clients : UpdateStmt(c, RoundTripInputs)
  \/ Tick

\* One caller creates a user and another reads it back, with renames and
\* the clock in between.
RoundTripSpec == Init /\ [][RoundTripNext]_vars

NormNext ==
  \/ \E c \in Clients : GetByUsername(c, NormInputs)
  \/ \E c \in Clients : Create(c, NormInputs)
  \/ \E c \in Clients : Update(c, NormInputs)
  \/ \E c \in Clients : GetByUsernameStmt(c, NormInputs)
  \/ \E c \in Clients : CreateStmt(c, NormInputs)
  \/ \E c \in Clients : UpdateStmt(c, NormInputs)

\* Single calls of the normalising methods over all short strings.
NormSpec == Init /\ [][NormNext]_vars

HttpNext ==
  \/ \E c \in Clients : GetAllUsers(c, HttpInputs)
  \/ \E c \in Clients : GetUserByUsername(c, HttpInputs)
  \/ \E c \in Clients : GetUserByID(c, HttpInputs)
  \/ \E c \in Clients : CreateUser(c, HttpInputs)
  \/ \E c \in Clients : UpdateUser(c, HttpInputs)
  \/ \E c \in Clients : DeleteUser(c, HttpInputs)
  \/ \E c \in Clients : GetAllStmt(c, HttpInputs)
  \/ \E c \in Clients : GetByUsernameStmt(c, HttpInputs)
  \/ \E c \in Clients : GetByIDStmt(c, HttpInputs)
  \/ \E c \in Clients : CreateStmt(c, HttpInputs)
  \/ \E c \in Clients : UpdateStmt(c, HttpInputs)
  \/ \E c \in Clients : DeleteStmt(c, HttpInputs)

\* Requests through the controller, one at a time.
HttpSpec == Init /\ [][HttpNext]_vars

HardDeleteNext ==
  \/ \E c \in Clients : GetAll(c, HardDeleteInputs)
  \/ \E c \in Clients : GetByUsername(c, HardDeleteInputs)
  \/ \E c \in Clients : GetByID(c, HardDeleteInputs)
  \/ \E c \in Clients : Create(c, HardDeleteInputs)
  \/ \E c \in Clients : Delete(c, HardDeleteInputs)
  \/ \E c \in Clients : GetAllStmt(c, HardDeleteInputs)
  \/ \E c \in Clients : GetByUsernameStmt(c, HardDeleteInputs)
  \/ \E c \in Clients : GetByIDStmt(c, HardDeleteInputs)
  \/ \E c \in Clients : CreateStmt(c, HardDeleteInputs)
  \/ \E c \in Clients : DeleteStmt(c, HardDeleteInputs)

\* Deletes followed by lookups and by a Create of the deleted username.
HardDeleteSpec == Init /\ [][HardDeleteNext]_vars

AuthNext ==
  \/ \E c \in Clients : LivenessProbe(c, AuthInputs)
  \/ \E c \in Clients : ReadinessProbe(c, AuthInputs)
  \/ \E c \in Clients : GetAllUsers(c, AuthInputs)
  \/ \E c \in Clients : GetUserByUsername(c, AuthInputs)
  \/ \E c \in Clients : GetUserByID(c, AuthInputs)
  \/ \E c \in Clients : CreateUser(c, AuthInputs)
  \/ \E c \in Clients : UpdateUser(c, AuthInputs)
  \/ \E c \in Clients : DeleteUser(c, AuthInputs)
  \/ \E c \in Clients : GetAllStmt(c, AuthInputs)
  \/ \E c \in Clients : GetByUsernameStmt(c, AuthInputs)
  \/ \E c \in Clients : GetByIDStmt(c, AuthInputs)
  \/ \E c \in Clients : CreateStmt(c, AuthInputs)
  \/ \E c \in Clients : UpdateStmt(c, AuthInputs)
  \/ \E c \in Clients : DeleteStmt(c, AuthInputs)

\* Requests to every route of the engine, through its middleware.
AuthSpec == Init /\ [][AuthNext]_vars

ListNext ==
  \/ \E c \in Clients : GetAllUsers(c, ListInputs)
  \/ \E c \in Clients : CreateUser(c, ListInputs)
  \/ \E c \in Clients : DeleteUser(c, ListInputs)
  \/ \E c \in Clients : GetAllStmt(c, ListInputs)
  \/ \E c \in Clients : CreateStmt(c, ListInputs)
  \/ \E c \in Clients : DeleteStmt(c, ListInputs)

\* GET /users between requests that fill and empty the store.
ListSpec == Init /\ [][ListNext]_vars

ShutdownNext ==
  \/ \E c \in Clients : GetAllUsers(c, ShutdownInputs)
  \/ \E c \in Clients : DeleteUser(c, ShutdownInputs)
  \/ \E c \in Clients : GetAllStmt(c, ShutdownInputs)
  \/ \E c \in Clients : DeleteStmt(c, ShutdownInputs)
  \/ Signal
  \/ ShutdownCalled
  \/ ShutdownReturns
  \/ CloseDatabase

\* The server under requests until a signal stops it.
ShutdownSpec == Init /\ [][ShutdownNext]_vars

\* ------------------------------------------------------------------------
\* Properties
\* ------------------------------------------------------------------------
Done(c) == proc[c].pc = "done"

\* Client c's call went from waiting for its statement to returned.
Completes(c) == proc[c].pc = "repo" /\ proc'[c].pc = "done"

\* The taxonomy of internal/errors/errors.go.
Taxonomy ==
  {ErrUserNotFound, ErrUsernameExists, ErrEmailExists, ErrInvalidInput,
   ErrDatabaseOperation}

InTaxonomy(e) == \E t \in Taxonomy : Is(e, t)

\* Rows of the table that bear the username u or one of the emails es.
Bearing(u, es) ==
  {i \in DOMAIN users : users[i].username = u \/ users[i].email \in es}

\* The statement of c met no failure other than a violated UNIQUE column.
NoStorageFailure(c) ==
  proc[c].raw \in {NoErr} \cup {UniqueViolation(col) : col \in UniqueColumns}

\* c and d are in Create calls for the same username and different emails,
\* c's statement ran while d's call was already in progress, storage did not
\* fail, and nothing but these two calls put that username or these emails
\* into the table.
RacedCreates(c, d) ==
  /\ c # d /\ Done(c) /\ Done(d)
  /\ proc[c].op = "Create" /\ proc[d].op = "Create"
  /\ proc[c].repoCalls = 1 /\ proc[d].repoCalls = 1
  /\ proc[d].call \in proc[c].inflight
  /\ NoStorageFailure(c) /\ NoStorageFailure(d)
  /\ proc[c].req.username = proc[d].req.username
  /\ proc[c].req.email # proc[d].req.email
  /\ Bearing(proc[c].req.username.v,
             {proc[c].req.email.v, proc[d].req.email.v})
       \subseteq {proc[c].user.id, proc[d].user.id}

C2_UniqueUsernameAndEmail ==
  \A i, j \in DOMAIN users :
    i # j => /\ users[i].username # users[j].username
             /\ users[i].email # users[j].email

C2_Witness ==
  /\ Cardinality(DOMAIN users) >= 4
  /\ \E c, d \in Clients :
       /\ c # d /\ Done(c) /\ Done(d)
       /\ proc[c].stmt = "UPDATE" /\ proc[c].repoErr = ErrEmailExists
       /\ proc[d].stmt = "INSERT" /\ proc[d].repoErr = NoErr

\* C3: every error a repository method returns is nil or a member of the
\* taxonomy {ErrUserNotFound, ErrUsernameExists, ErrEmailExists,
\* ErrInvalidInput, ErrDatabaseOperation}; a raw driver error never comes
\* back as it is.
C3_ClosedTaxonomy ==
  \A c \in Clients :
    (Done(c) /\ proc[c].repoCalls = 1) =>
      (proc[c].repoErr = NoErr \/ InTaxonomy(proc[c].repoErr))

\* A Create or Update write of c failed with a 23505 that names neither
\* column, or with an error that is no unique violation (and no empty result).
UnclassifiableWriteError(c) ==
  /\ Done(c)
  /\ proc[c].stmt \in {"INSERT", "UPDATE"}
  /\ proc[c].raw # NoErr
  /\ proc[c].raw # SqlErrNoRows
  /\ proc[c].raw \notin {UniqueViolation(col) : col \in UniqueColumns}

\* C4: a Create or Update write that fails with a unique violation naming
\* neither the username nor the email column, or with an error that is no
\* unique violation, returns ErrDatabaseOperation and no user; never success,
\* ErrUsernameExists or ErrEmailExists.
C4_UnclassifiedIsStorageFailure ==
  \A c \in Clients :
    UnclassifiableWriteError(c) =>
      /\ Is(proc[c].repoErr, ErrDatabaseOperation)
      /\ proc[c].user = NoUser
      /\ ~Is(proc[c].repoErr, ErrUsernameExists)
      /\ ~Is(proc[c].repoErr, ErrEmailExists)

\* The row the write c waits for would store.
PendingRow(c) ==
  IF proc[c].op = "Create"
    THEN Row(proc[c].req.username.v, proc[c].req.email.v,
             proc[c].req.full_name.v, now, now)
    ELSE UpdatedRow(BuildUpdate(proc[c].id, proc[c].req), users[proc[c].id],
                    now)

\* The write c waits for is rejected by storage, and col is the only UNIQUE
\* column on which its row collides.
RejectedOnlyOn(c, col) ==
  /\ Completes(c)
  /\ proc'[c].stmt \in {"INSERT", "UPDATE"}
  /\ proc'[c].raw.kind = "pq" /\ proc'[c].raw.name = "23505"
  /\ proc'[c].raw # UnknownUniqueViolation
  /\ (proc[c].op = "Update" => proc[c].id \in DOMAIN users)
  /\ ViolatedColumns(users, IF proc[c].op = "Create" THEN nextId ELSE proc[c].id,
                     PendingRow(c)) = {col}

\* C5: a Create or Update write rejected only for the email constraint returns
\* ErrEmailExists, and one rejected only for the username constraint returns
\* ErrUsernameExists.
C5_ConflictNamesTheColumn ==
  [][\A c \in Clients :
       /\ RejectedOnlyOn(c, "email") => proc'[c].repoErr = ErrEmailExists
       /\ RejectedOnlyOn(c, "username") => proc'[c].repoErr = ErrUsernameExists
    ]_vars

\* bob/jdoe@example.com against the seeded jdoe/jdoe@example.com.
C5_Witness ==
  \E c \in Clients :
    /\ Done(c) /\ proc[c].op = "Create" /\ proc[c].stmt = "INSERT"
    /\ proc[c].req.username.v = Str_bob
    /\ proc[c].req.email.v = Str_jdoe \o Str_example_com
    /\ proc[c].raw = UniqueViolation("email")
    /\ proc[c].repoErr = ErrEmailExists
    /\ \A i \in DOMAIN users : users[i].username # Str_bob

\* The fault under which GetByID returns the raw error raw.
FaultOf(raw) == IF raw = SqlErrNoRows THEN NoFault ELSE raw

\* C6: repository Update with no field present sends no write statement,
\* returns what GetByID returns on the same table (the current user, or
\* ErrUserNotFound when the id is absent) and leaves the table as it was.
C6_EmptyUpdateIsGetByID ==
  [][\A c \in Clients :
       (Completes(c) /\ proc[c].op = "Update" /\ proc[c].req = NoRequest) =>
         LET o == RepoGetByID(users, proc[c].id, FaultOf(proc'[c].raw))
         IN /\ proc'[c].stmt = "SELECT"
            /\ users' = users
            /\ proc'[c].user = o.user
            /\ proc'[c].repoErr = o.err
            /\ proc'[c].err = o.err
            /\ (proc'[c].raw = NoErr =>
                  /\ proc[c].id \in DOMAIN users
                  /\ proc'[c].user = User(proc[c].id, users[proc[c].id])
                  /\ proc'[c].err = NoErr)
            /\ (proc'[c].raw = SqlErrNoRows =>
                  /\ proc[c].id \notin DOMAIN users
                  /\ proc'[c].user = NoUser
                  /\ proc'[c].err = ErrUserNotFound)
    ]_vars

\* An empty Update of the seeded jdoe, later than the row's updated_at.
C6_Witness ==
  \E c \in Clients :
    /\ Done(c) /\ proc[c].op = "Update" /\ proc[c].repoCalls = 1
    /\ proc[c].req = NoRequest
    /\ proc[c].id = 1 /\ proc[c].user.id = 1
    /\ proc[c].user.updated_at < now

\* The full name s, trimmed, is empty or has a character that is no letter,
\* whitespace, hyphen or apostrophe.
BadFullName(s) ==
  LET t == TrimSpace(s)
  IN \/ Len(t) = 0
     \/ \E i \in 1..Len(t) :
          ~(IsLetter(t[i]) \/ IsSpace(t[i]) \/ t[i] \in {"-", "'"})

\* C7: service Create with such a full name returns ErrInvalidInput and no
\* user, without a repository call, and the table is unchanged.
C7_CreateInvalidFullName ==
  [][\A c \in Clients :
       (proc'[c] # proc[c] /\ proc'[c].pc = "done" /\ proc'[c].op = "Create"
        /\ BadFullName(proc'[c].arg.full_name.v)) =>
         /\ proc[c].pc # "repo"
         /\ Is(proc'[c].err, ErrInvalidInput)
         /\ proc'[c].user = NoUser
         /\ proc'[c].repoCalls = 0
         /\ proc'[c].stmt = "none"
         /\ users' = users
    ]_vars

C7_Witness ==
  \E c \in Clients :
    /\ Done(c) /\ proc[c].op = "Create"
    /\ proc[c].arg.full_name.v = <<"J","o","h","n","1","2","3">>
    /\ Is(proc[c].err, ErrInvalidInput)
    /\ proc[c].repoCalls = 0

\* C8: service Update with a full name that is present and invalid returns
\* ErrInvalidInput without a repository call, whatever else is present; with
\* the full name absent it never returns ErrInvalidInput and makes exactly
\* one repository call.
C8_UpdateValidatesPresentFullName ==
  \A c \in Clients :
    (proc[c].op = "Update" /\ proc[c].pc \in {"repo", "done"}) =>
      /\ (proc[c].arg.full_name.present /\ BadFullName(proc[c].arg.full_name.v))
           => /\ Done(c)
              /\ Is(proc[c].err, ErrInvalidInput)
              /\ proc[c].repoCalls = 0
              /\ proc[c].stmt = "none"
      /\ ~proc[c].arg.full_name.present
           => /\ ~Is(proc[c].err, ErrInvalidInput)
              /\ proc[c].repoCalls = 1

C8_Witness ==
  \E c \in Clients :
    /\ Done(c) /\ proc[c].op = "Update"
    /\ proc[c].arg.full_name = Some(<<"J","1">>)
    /\ proc[c].arg.username.present /\ proc[c].arg.email.present
    /\ Is(proc[c].err, ErrInvalidInput)
    /\ proc[c].repoCalls = 0

\* C9: Delete of an identity that is not in the table returns ErrUserNotFound
\* from the repository and, unchanged, from the service, and DeleteUser
\* answers the same call 204.
C9_DeleteAbsent ==
  [][\A c \in Clients :
       (Completes(c) /\ proc[c].op = "Delete" /\ proc'[c].raw = NoErr
        /\ proc[c].id \notin DOMAIN users) =>
         /\ proc'[c].repoErr = ErrUserNotFound
         /\ proc'[c].err = ErrUserNotFound
         /\ (proc[c].http => proc'[c].status = StatusNoContent)
         /\ users' = users
    ]_vars

C9_Witness ==
  \E c \in Clients :
    /\ Done(c) /\ proc[c].op = "Delete" /\ proc[c].http
    /\ proc[c].id = AbsentId
    /\ proc[c].repoErr = ErrUserNotFound
    /\ proc[c].status = StatusNoContent

\* A DELETE /users/id/:id with a well-formed id that storage did not fail.
DeleteAnswered(c) ==
  /\ Done(c) /\ proc[c].op = "Delete" /\ proc[c].http
  /\ proc[c].idParam.wellFormed
  /\ proc[c].raw = NoErr

\* C10: every such DELETE, repeated or concurrent, is answered 204, the row
\* is absent once one has completed, and an absent identity stays absent.
C10_DeleteIdempotent ==
  /\ [](\A c \in Clients :
          DeleteAnswered(c) =>
            /\ proc[c].status = StatusNoContent
            /\ proc[c].id \notin DOMAIN users)
  /\ [][\A id \in 1..(nextId - 1) :
          id \notin DOMAIN users => id \notin DOMAIN users']_vars

\* Two concurrent DELETEs of jdoe: one deleted the row, the other found none.
C10_Witness ==
  \E c, d \in Clients :
    /\ c # d /\ DeleteAnswered(c) /\ DeleteAnswered(d)
    /\ proc[c].id = 1 /\ proc[d].id = 1
    /\ proc[d].call \in proc[c].inflight
    /\ proc[c].repoErr = NoErr /\ proc[d].repoErr = ErrUserNotFound
    /\ proc[c].status = StatusNoContent /\ proc[d].status = StatusNoContent

\* A request of Update with at least one field present.
NonEmpty(req) ==
  req.username.present \/ req.email.present \/ req.full_name.present

\* The value a successful Update leaves in a column: the supplied one, or
\* the old one when the field is absent.
Supplied(field, old) == IF field.present THEN field.v ELSE old

\* C11: a successful Update with at least one field present writes to the
\* row of its id exactly the present fields; the absent fields, the identity
\* and created_at keep their values, the returned user is that row, and no
\* other row is touched, added or removed.
C11_UpdateWritesPresentFieldsOnly ==
  [][\A c \in Clients :
       (Completes(c) /\ proc[c].op = "Update" /\ NonEmpty(proc[c].req)
        /\ proc'[c].repoErr = NoErr) =>
         LET id == proc[c].id
             req == proc[c].req
         IN /\ id \in DOMAIN users
            /\ DOMAIN users' = DOMAIN users
            /\ \A j \in DOMAIN users \ {id} : users'[j] = users[j]
            /\ users'[id].username = Supplied(req.username, users[id].username)
            /\ users'[id].email = Supplied(req.email, users[id].email)
            /\ users'[id].full_name
                 = Supplied(req.full_name, users[id].full_name)
            /\ users'[id].created_at = users[id].created_at
            /\ proc'[c].user = User(id, users'[id])
    ]_vars

\* jdoe's full name alone was updated after the clock had advanced.
C11_Witness ==
  \E c \in Clients :
    /\ Done(c) /\ proc[c].op = "Update" /\ proc[c].stmt = "UPDATE"
    /\ proc[c].req = Request(Absent, Absent, Some(<<"A","l","-","O","'","x">>))
    /\ proc[c].repoErr = NoErr /\ proc[c].id = 1
    /\ 1 \in DOMAIN users
    /\ users[1].username = Str_jdoe
    /\ users[1].full_name = <<"A","l","-","O","'","x">>
    /\ users[1].created_at = 0 /\ users[1].updated_at > 0

\* The calls that only read: the lookups and an Update without fields.
ReadOnly(c) ==
  \/ proc[c].op \in {"GetAll", "GetByUsername", "GetByID"}
  \/ proc[c].op = "Update" /\ ~NonEmpty(proc[c].req)

\* C12: updated_at is never earlier than created_at in any row; a successful
\* Update with at least one field sets the row's updated_at to the current
\* timestamp, never an earlier one than it had; the lookups and an Update
\* without fields leave every row's updated_at as it was.
C12_UpdatedAtRefreshed ==
  /\ [](\A id \in DOMAIN users : users[id].updated_at >= users[id].created_at)
  /\ [][\A c \in Clients :
          (Completes(c) /\ proc[c].op = "Update" /\ NonEmpty(proc[c].req)
           /\ proc'[c].repoErr = NoErr) =>
            /\ users'[proc[c].id].updated_at = now
            /\ users'[proc[c].id].updated_at >= users[proc[c].id].updated_at
            /\ proc'[c].user.updated_at = now
     ]_vars
  /\ [][\A c \in Clients :
          (Completes(c) /\ ReadOnly(c)) =>
            /\ DOMAIN users' = DOMAIN users
            /\ \A id \in DOMAIN users :
                 users'[id].updated_at = users[id].updated_at
     ]_vars

\* jdoe's email was updated at time 1: created at 0, updated at 1.
C12_Witness ==
  \E c \in Clients :
    /\ Done(c) /\ proc[c].op = "Update" /\ proc[c].stmt = "UPDATE"
    /\ proc[c].req.email.present /\ ~proc[c].req.full_name.present
    /\ proc[c].repoErr = NoErr /\ proc[c].id = 1
    /\ now = 1
    /\ users[1].created_at = 0 /\ users[1].updated_at = 1

\* The mutable columns in the order Update examines them.
FixedOrder == <<"username", "email", "full_name">>

\* The columns of FixedOrder whose field is present in req, in that order.
PresentColumns(req) ==
  LET IsPresent(col) == req[col].present
  IN SelectSeq(FixedOrder, IsPresent)

\* The statement Update builds for id and req has the shape the claim gives.
WellBuilt(id, req) ==
  LET q == BuildUpdate(id, req)
      cols == PresentColumns(req)
      k == Len(cols)
  IN /\ Len(q.updates) = k + 1
     /\ \A i \in 1..k :
          /\ q.updates[i] = [col |-> cols[i], pos |-> i]
          /\ q.args[i] = req[cols[i]].v
     /\ q.updates[k + 1] = [col |-> "updated_at", pos |-> 0]
     /\ q.wherePos = k + 1
     /\ Len(q.args) = k + 1
     /\ q.args[k + 1] = id

\* C13: for every Update that reaches the repository with k >= 1 fields
\* present, the statement assigns the present columns in the order username,
\* email, full_name, the i-th of them from placeholder $i bound to that
\* field's value, then updated_at from CURRENT_TIMESTAMP, and names the id
\* in WHERE as $k+1, the last of exactly k+1 arguments.
C13_UpdateStatementShape ==
  \A c \in Clients :
    (proc[c].op = "Update" /\ proc[c].repoCalls = 1 /\ NonEmpty(proc[c].req))
      => WellBuilt(proc[c].id, proc[c].req)

\* An Update of email and full name only has reached the repository: email
\* is $1, full_name $2 and the id $3.
C13_Witness ==
  \E c \in Clients :
    /\ proc[c].op = "Update" /\ proc[c].repoCalls = 1
    /\ PresentColumns(proc[c].req) = <<"email", "full_name">>
    /\ BuildUpdate(proc[c].id, proc[c].req).wherePos = 3
    /\ proc[c].stmt = "UPDATE"

\* C14: an Update with at least one field present whose id is not in the
\* table, and whose statement storage did not fail, returns ErrUserNotFound
\* and no user, creates no row, and leaves the table as it was.
C14_UpdateAbsentIsNotFound ==
  [][\A c \in Clients :
       (Completes(c) /\ proc[c].op = "Update" /\ NonEmpty(proc[c].req)
        /\ proc[c].id \notin DOMAIN users
        /\ proc'[c].raw = SqlErrNoRows) =>
         /\ proc'[c].stmt = "UPDATE"
         /\ proc'[c].repoErr = ErrUserNotFound
         /\ proc'[c].err = ErrUserNotFound
         /\ proc'[c].user = NoUser
         /\ users' = users
    ]_vars

\* An Update of the username of an identity that never existed.
C14_Witness ==
  \E c \in Clients :
    /\ Done(c) /\ proc[c].op = "Update" /\ proc[c].stmt = "UPDATE"
    /\ proc[c].id = AbsentId /\ proc[c].req.username.present
    /\ proc[c].raw = SqlErrNoRows
    /\ proc[c].repoErr = ErrUserNotFound
    /\ AbsentId \notin DOMAIN users

\* The rows the lookup of c is for: the row of its id, or the rows bearing
\* the username the service passed on.
Matching(c) ==
  IF proc[c].op = "GetByID" THEN {proc[c].id} \cap DOMAIN users
  ELSE {i \in DOMAIN users : users[i].username = proc[c].req.username.v}

\* C15: GetByID and GetByUsername return either a user and no error or no
\* user and an error, never both and never neither; a lookup that matches no
\* row never succeeds and, when the statement itself did not fail, returns
\* ErrUserNotFound; a lookup whose key is in the table never returns
\* ErrUserNotFound and, when it succeeds, returns the row with that key.
C15_LookupRecordXorError ==
  [][\A c \in Clients :
       (Completes(c) /\ proc[c].op \in {"GetByID", "GetByUsername"}) =>
         /\ (proc'[c].user # NoUser) <=> (proc'[c].err = NoErr)
         /\ (proc'[c].user # NoUser) <=> (proc'[c].repoErr = NoErr)
         /\ Matching(c) = {} =>
              /\ proc'[c].user = NoUser
              /\ proc'[c].err # NoErr
              /\ proc'[c].raw = SqlErrNoRows =>
                   proc'[c].err = ErrUserNotFound
         /\ Matching(c) # {} =>
              /\ ~Is(proc'[c].err, ErrUserNotFound)
              /\ proc'[c].raw # SqlErrNoRows
              /\ proc'[c].err = NoErr =>
                   \E i \in Matching(c) : proc'[c].user = User(i, users[i])
    ]_vars

\* GetByUsername("bob") on a table without bob: no user, ErrUserNotFound.
C15_Witness ==
  \E c \in Clients :
    /\ Done(c) /\ proc[c].op = "GetByUsername"
    /\ proc[c].req.username.v = Str_bob
    /\ \A i \in DOMAIN users : users[i].username # Str_bob
    /\ proc[c].raw = SqlErrNoRows
    /\ proc[c].err = ErrUserNotFound /\ proc[c].user = NoUser

\* d's call is a GetByID of the identity c's Create returned, started as
\* the very next call after that Create and answered by storage; c has
\* made no call since.
ReadBack(c, d) ==
  /\ c # d /\ Done(c) /\ Done(d)
  /\ proc[c].op = "Create" /\ proc[c].err = NoErr
  /\ proc[d].op = "GetByID" /\ proc[d].call = proc[c].call + 1
  /\ proc[d].id = proc[c].user.id
  /\ proc[d].raw = NoErr

\* C16: a GetByID of the identity a successful Create returned, made right
\* after it with no write in between, returns a user equal to the one Create
\* returned in id, username, email, full name, created_at and updated_at.
C16_CreateThenGetByID ==
  \A c, d \in Clients :
    ReadBack(c, d) =>
      /\ proc[d].err = NoErr
      /\ proc[d].user.id = proc[c].user.id
      /\ proc[d].user.username = proc[c].user.username
      /\ proc[d].user.email = proc[c].user.email
      /\ proc[d].user.full_name = proc[c].user.full_name
      /\ proc[d].user.created_at = proc[c].user.created_at
      /\ proc[d].user.updated_at = proc[c].user.updated_at

\* bob was created at time 1 from " Bob " and read back.
C16_Witness ==
  \E c, d \in Clients :
    /\ ReadBack(c, d)
    /\ proc[c].arg.username.v = <<" ","B","o","b"," ">>
    /\ proc[c].user.username = Str_bob
    /\ proc[c].user.created_at = 1
    /\ proc[d].user = proc[c].user

\* t is s without the whitespace at its two ends.
TrimmedFrom(t, s) ==
  /\ t # <<>> => ~IsSpace(t[1]) /\ ~IsSpace(t[Len(t)])
  /\ \E i \in 0..Len(s) :
       /\ i + Len(t) <= Len(s)
       /\ SubSeq(s, i + 1, i + Len(t)) = t
       /\ \A k \in (1..i) \cup ((i + Len(t) + 1)..Len(s)) : IsSpace(s[k])

\* t is s in lower case without the whitespace at its two ends.
LoweredAndTrimmedFrom(t, s) ==
  /\ Len(t) <= Len(s)
  /\ \A k \in 1..Len(t) : ~IsUpper(t[k])
  /\ TrimmedFrom(t, [k \in 1..Len(s) |->
                       IF IsUpper(s[k]) THEN ToLowerChar(s[k]) ELSE s[k]])

\* C17: in every Create, Update and GetByUsername that reaches the
\* repository, each present field of the request the repository receives is
\* the normal form of the field the caller gave: username and email in lower
\* case without whitespace at the ends, the full name without whitespace at
\* the ends; absent fields stay absent.
C17_RepositorySeesNormalForms ==
  \A c \in Clients :
    (proc[c].repoCalls = 1
     /\ proc[c].op \in {"Create", "Update", "GetByUsername"}) =>
      LET arg == proc[c].arg
          req == proc[c].req
      IN /\ \A f \in {"username", "email", "full_name"} :
              req[f].present = arg[f].present
         /\ \A f \in {"username", "email"} :
              req[f].present => LoweredAndTrimmedFrom(req[f].v, arg[f].v)
         /\ req.full_name.present
              => TrimmedFrom(req.full_name.v, arg.full_name.v)

\* An Update given " Bob@X.com" and " Al-O'x " sent bob@x.com and Al-O'x.
C17_Witness ==
  \E c \in Clients :
    /\ proc[c].op = "Update" /\ proc[c].stmt = "UPDATE"
    /\ proc[c].arg.email = Some(<<" ","B","o","b","@","X",".","c","o","m">>)
    /\ proc[c].req.email = Some(Str_bob_mail)
    /\ proc[c].arg.full_name = Some(<<" ","A","l","-","O","'","x"," ">>)
    /\ proc[c].req.full_name = Some(<<"A","l","-","O","'","x">>)

\* The request the service would pass on if the request req were submitted
\* to the method op.
Resubmitted(op, req) ==
  IF op = "Create" THEN NormalizeCreate(req)
  ELSE IF op = "Update" THEN NormalizeUpdate(req)
  ELSE Request(Some(NormalizeIdentity(req.username.v)), Absent, Absent)

\* s is in lower case and has no whitespace at its ends.
IsNormalIdentity(s) ==
  /\ \A k \in 1..Len(s) : ~IsUpper(s[k])
  /\ s # <<>> => ~IsSpace(s[1]) /\ ~IsSpace(s[Len(s)])

\* C18: for every string given as username or email, lower-casing and
\* trimming it twice gives what doing it once gives, and for every string
\* given as full name trimming twice gives what trimming once gives; a
\* username or email that is already in normal form reaches the repository
\* as given, and the request the repository received, submitted again,
\* reaches it unchanged.
C18_NormalisationIdempotent ==
  \A c \in Clients :
    proc[c].op \in {"Create", "Update", "GetByUsername"} =>
      LET arg == proc[c].arg
          req == proc[c].req
      IN /\ \A f \in {"username", "email"} :
              arg[f].present =>
                /\ NormalizeIdentity(NormalizeIdentity(arg[f].v))
                     = NormalizeIdentity(arg[f].v)
                /\ (proc[c].repoCalls = 1 /\ IsNormalIdentity(arg[f].v))
                     => req[f].v = arg[f].v
         /\ arg.full_name.present =>
              TrimSpace(TrimSpace(arg.full_name.v)) = TrimSpace(arg.full_name.v)
         /\ proc[c].repoCalls = 1 => Resubmitted(proc[c].op, req) = req

\* GetByUsername("  B") passed "b" on, which is not what cutting one
\* character would give, and GetByUsername("b") would pass "b" on.
C18_Witness ==
  \E c \in Clients :
    /\ Done(c) /\ proc[c].op = "GetByUsername"
    /\ proc[c].arg.username.v = <<" "," ","B">>
    /\ proc[c].req.username.v = <<"b">>
    /\ Resubmitted("GetByUsername", proc[c].req) = proc[c].req

\* C19: in every call of GetAll, GetByUsername, GetByID, Create, Update and
\* Delete that reached the repository, the error the service returns is the
\* error the repository returned, with no user; and when the repository
\* returned no error, the service returns the user (for GetAll the list)
\* the repository returned and no error.
C19_ServicePassesThrough ==
  \A c \in Clients :
    (Done(c) /\ proc[c].repoCalls = 1) =>
      /\ proc[c].err = proc[c].repoErr
      /\ proc[c].repoErr # NoErr => proc[c].user = NoUser
      /\ proc[c].repoErr = NoErr =>
           /\ proc[c].user = proc[c].repoUser
           /\ proc[c].list = proc[c].repoList

\* GetByID lost its connection: the service returned the driver's error.
C19_Witness ==
  \E c \in Clients :
    /\ Done(c) /\ proc[c].op = "GetByID" /\ proc[c].repoCalls = 1
    /\ proc[c].repoErr = DriverBadConn
    /\ proc[c].err = DriverBadConn
    /\ proc[c].user = NoUser

\* The handler of c's request called the service and has answered.
ServiceAnswered(c) ==
  /\ Done(c) /\ proc[c].http
  /\ proc[c].repoCalls = 1 \/ proc[c].err # NoErr

IsConflict(e) == Is(e, ErrUsernameExists) \/ Is(e, ErrEmailExists)

\* C20: the status a handler answers is fixed by the outcome of its service
\* call. POST /users: no error 201, ErrInvalidInput 400, ErrUsernameExists
\* or ErrEmailExists 409, any other error 500. PATCH /users/id/:id: no error
\* 200, ErrUserNotFound 404, a conflict 409, ErrInvalidInput 400, any other
\* error 500. GET by id and by username: ErrUserNotFound 404, any other
\* error 500. ErrUserNotFound is answered with a status below 400 by DELETE
\* only.
C20_StatusOfServiceOutcome ==
  \A c \in Clients :
    ServiceAnswered(c) =>
      LET e == proc[c].err
          st == proc[c].status
      IN /\ proc[c].op = "Create" =>
              st = IF e = NoErr THEN 201
                   ELSE IF Is(e, ErrInvalidInput) THEN 400
                   ELSE IF IsConflict(e) THEN 409
                   ELSE 500
         /\ proc[c].op = "Update" =>
              st = IF e = NoErr THEN 200
                   ELSE IF Is(e, ErrUserNotFound) THEN 404
                   ELSE IF IsConflict(e) THEN 409
                   ELSE IF Is(e, ErrInvalidInput) THEN 400
                   ELSE 500
         /\ (proc[c].op \in {"GetByID", "GetByUsername"} /\ e # NoErr) =>
              st = IF Is(e, ErrUserNotFound) THEN 404 ELSE 500
         /\ Is(e, ErrUserNotFound) => (st < 400 <=> proc[c].op = "Delete")

\* POST /users with the full name John123 was answered 400 for the
\* service's ErrInvalidInput.
C20_Witness ==
  \E c \in Clients :
    /\ ServiceAnswered(c) /\ proc[c].op = "Create"
    /\ proc[c].arg.full_name.v = <<"J","o","h","n","1","2","3">>
    /\ Is(proc[c].err, ErrInvalidInput)
    /\ proc[c].repoCalls = 0
    /\ proc[c].status = StatusBadRequest

\* c's request came through a handler with an :id uuid.Parse rejects.
MalformedId(c) ==
  proc[c].pc # "idle" /\ proc[c].http /\ ~proc[c].idParam.wellFormed

\* C21: a GET, PATCH or DELETE on /users/id/:id whose id does not parse is
\* answered 400, DELETE included; the service and the repository are not
\* called, no statement is sent, and the step that answers it leaves the
\* table as it was.
C21_MalformedIdIs400 ==
  /\ [](\A c \in Clients :
          MalformedId(c) =>
            /\ proc[c].op \in {"GetByID", "Update", "Delete"}
            /\ proc[c].pc = "done"
            /\ proc[c].status = 400
            /\ proc[c].repoCalls = 0
            /\ proc[c].stmt = "none"
            /\ proc[c].err = NoErr)
  /\ [][\A c \in Clients :
          (proc'[c].call # proc[c].call /\ ~proc'[c].idParam.wellFormed)
            => users' = users /\ nextId' = nextId]_vars

\* DELETE /users/id/<not a uuid> was answered 400.
C21_Witness ==
  \E c \in Clients :
    /\ MalformedId(c) /\ proc[c].op = "Delete"
    /\ proc[c].status = StatusBadRequest
    /\ proc[c].repoCalls = 0

\* C22: a call of the service makes at most one call of the repository, and
\* a call of the repository that has returned sent exactly one statement,
\* whether the statement succeeded or failed; a failed statement's error is
\* returned by the repository and by the service: a domain error for no row
\* and for a classified violation, the driver's error otherwise. A call the
\* service rejected sent nothing.
C22_OneStatementNoRetry ==
  \A c \in Clients :
    /\ proc[c].repoCalls \in {0, 1}
    /\ proc[c].sent <= proc[c].repoCalls
    /\ (Done(c) /\ proc[c].repoCalls = 1) =>
         /\ proc[c].sent = 1
         /\ proc[c].stmt \in {"SELECT", "INSERT", "UPDATE", "DELETE"}
         /\ proc[c].raw # NoErr =>
              /\ proc[c].repoErr # NoErr
              /\ proc[c].err # NoErr
              /\ proc[c].user = NoUser

\* A DELETE that lost its connection: one statement, the error returned.
C22_Witness ==
  \E c \in Clients :
    /\ Done(c) /\ proc[c].op = "Delete" /\ proc[c].id = 1
    /\ proc[c].raw = DriverBadConn /\ proc[c].sent = 1
    /\ proc[c].err = DriverBadConn
    /\ 1 \in DOMAIN users

\* d's call is the very next one after c's successful Delete, its statement
\* ran after the DELETE and reached storage; no other call was in progress
\* when the DELETE ran and c has made no call since.
AfterDelete(c, d) ==
  /\ c # d /\ Done(c) /\ Done(d)
  /\ proc[c].op = "Delete" /\ proc[c].repoCalls = 1 /\ proc[c].err = NoErr
  /\ proc[c].inflight = {}
  /\ proc[d].call = proc[c].call + 1
  /\ proc[c].call \notin proc[d].inflight
  /\ proc[d].repoCalls = 1
  /\ proc[d].raw \notin ReadFaults \ {NoFault}

\* C23: a successful Delete removes the row and nothing else; in the table
\* it leaves, GetByID of the id and GetByUsername of the row's username
\* return ErrUserNotFound, GetAll does not list the id, and a Create with
\* the row's username and email succeeds under another id. The calls made
\* right after the Delete see this: GetByID and GetByUsername (every row
\* that can be deleted here is a jdoe) return ErrUserNotFound, GetAll does
\* not list the id, Create of jdoe succeeds with a new id.
C23_HardDelete ==
  /\ [][\A c \in Clients :
          (Completes(c) /\ proc[c].op = "Delete" /\ proc'[c].err = NoErr) =>
            LET id == proc[c].id
                row == users[id]
                again == RepoCreate(users', nextId, now,
                                    Request(Some(row.username), Some(row.email),
                                            Some(row.full_name)),
                                    NoFault, "username")
            IN /\ id \in DOMAIN users /\ id \notin DOMAIN users'
               /\ DOMAIN users' = DOMAIN users \ {id}
               /\ \A i \in DOMAIN users' : users'[i] = users[i]
               /\ RepoGetByID(users', id, NoFault).err = ErrUserNotFound
               /\ RepoGetByUsername(users', row.username, NoFault).err
                    = ErrUserNotFound
               /\ \A u \in RepoGetAll(users', NoFault).list.items : u.id # id
               /\ again.err = NoErr /\ again.user.id # id
     ]_vars
  /\ [](\A c, d \in Clients :
          AfterDelete(c, d) =>
            /\ (proc[d].op = "GetByID" /\ proc[d].id = proc[c].id)
                 => proc[d].err = ErrUserNotFound /\ proc[d].user = NoUser
            /\ proc[d].op = "GetByUsername"
                 => proc[d].err = ErrUserNotFound /\ proc[d].user = NoUser
            /\ proc[d].op = "GetAll"
                 => \A u \in proc[d].list.items : u.id # proc[c].id
            /\ proc[d].op = "Create"
                 => /\ proc[d].err = NoErr
                    /\ proc[d].user.id # proc[c].id
                    /\ proc[d].user.username = Str_jdoe)

\* jdoe was deleted and created again at once, under the identity 4.
C23_Witness ==
  \E c, d \in Clients :
    /\ AfterDelete(c, d)
    /\ proc[c].id = 1 /\ proc[d].op = "Create"
    /\ proc[d].err = NoErr /\ proc[d].user.id = 4
    /\ proc[d].user.username = Str_jdoe
    /\ 1 \notin DOMAIN users /\ 4 \in DOMAIN users

\* ------------------------------------------------------------------------
\* C24, C25: the API-key middleware
\* ------------------------------------------------------------------------
UserOps == {"GetAll", "GetByUsername", "GetByID", "Create", "Update", "Delete"}

ProbeOps == {"Health", "Ready"}

\* Client c's request was stopped by the middleware with status.
AbortedWith(c, status) ==
  /\ proc[c].pc = "done"
  /\ proc[c].status = status
  /\ ~proc[c].handlerRan
  /\ proc[c].repoCalls = 0
  /\ proc[c].stmt = "none"
  /\ proc[c].sent = 0

\* C24: with API_KEY set, a request to a user route without X-API-Key is
\* answered 401 and one with a different key 403, in both cases without its
\* handler running, without a repository call and with the store as it was;
\* a request with the matching key, and every request when API_KEY is unset,
\* reaches its handler and is answered by it.
C24_APIKeyAuth ==
  /\ [](\A c \in Clients :
          proc[c].http /\ proc[c].op \in UserOps =>
            /\ (proc[c].apiKey # NoKey /\ proc[c].header = NoKey
                  => AbortedWith(c, StatusUnauthorized))
            /\ (proc[c].apiKey # NoKey /\ proc[c].header # NoKey
                /\ proc[c].header # proc[c].apiKey
                  => AbortedWith(c, StatusForbidden))
            /\ (proc[c].apiKey = NoKey \/ proc[c].header = proc[c].apiKey
                  => /\ proc[c].handlerRan
                     /\ proc[c].status \notin {StatusUnauthorized,
                                               StatusForbidden}
                     /\ (proc[c].pc = "done" => proc[c].status # 0)))
  /\ [][\A c \in Clients :
          proc'[c] # proc[c] /\ proc'[c].http /\ ~proc'[c].handlerRan
            => users' = users /\ nextId' = nextId]_vars

\* After a request that changed the store, a DELETE carrying another key
\* than the configured one was stopped with 403.
C24_Witness ==
  \E c \in Clients :
    /\ proc[c].op = "Delete" /\ proc[c].pc = "done"
    /\ proc[c].apiKey = Key_secret /\ proc[c].header = Key_other
    /\ proc[c].status = StatusForbidden
    /\ users # SeedUsers

\* C25: a request to /health or /ready is answered by its probe handler and
\* never with 401 or 403, whatever API_KEY and the X-API-Key header are.
C25_ProbesNeedNoKey ==
  \A c \in Clients :
    proc[c].op \in ProbeOps =>
      /\ proc[c].handlerRan
      /\ proc[c].status \notin {StatusUnauthorized, StatusForbidden}

\* ------------------------------------------------------------------------
\* C26: GET /users
\* ------------------------------------------------------------------------
\* C26: GET /users is answered 200 with an array of the stored records in
\* every state of the store, the empty one included (an empty array, not
\* null), and 500 only when the repository returned an error.
C26_GetAllIsArray ==
  \A c \in Clients :
    proc[c].http /\ proc[c].op = "GetAll" /\ proc[c].pc = "done" =>
      /\ proc[c].status \in {StatusOK, StatusInternalServerError}
      /\ (proc[c].status = StatusInternalServerError
            <=> proc[c].repoErr # NoErr)
      /\ (proc[c].status = StatusOK =>
            /\ ~proc[c].list.isNil
            /\ proc[c].list.items = {User(i, users[i]) : i \in DOMAIN users})

\* ------------------------------------------------------------------------
\* C27: the stored records are in normal form
\* ------------------------------------------------------------------------
\* A stored full name: not empty, no whitespace at its ends, and made of
\* letters, whitespace, hyphens and apostrophes only.
IsNormalFullName(s) ==
  /\ s # <<>>
  /\ ~IsSpace(s[1]) /\ ~IsSpace(s[Len(s)])
  /\ \A k \in 1..Len(s) : IsLetter(s[k]) \/ IsSpace(s[k]) \/ s[k] \in {"-", "'"}

\* C27: after any sequence of calls of the service on the seeded store,
\* every stored username and email is lower-case without whitespace at its
\* ends, every stored full name is a non-empty trimmed string of letters,
\* whitespace, hyphens and apostrophes, and no two records have usernames,
\* or emails, that are equal up to case and surrounding whitespace.
C27_StoredNormalForms ==
  /\ \A i \in DOMAIN users :
       /\ IsNormalIdentity(users[i].username)
       /\ IsNormalIdentity(users[i].email)
       /\ IsNormalFullName(users[i].full_name)
  /\ \A i, j \in DOMAIN users :
       i # j =>
         /\ NormalizeIdentity(users[i].username)
              # NormalizeIdentity(users[j].username)
         /\ NormalizeIdentity(users[i].email)
              # NormalizeIdentity(users[j].email)

\* A user created as " Bob " is stored as bob, and an Update gave it the
\* email " Bob@X.com" and the full name " Al-O'x ".
C27_Witness ==
  \E c \in Clients, i \in DOMAIN users :
    /\ i >= 4
    /\ users[i].username = Str_bob
    /\ proc[c].op = "Update" /\ proc[c].pc = "done" /\ proc[c].err = NoErr
    /\ proc[c].id = i
    /\ proc[c].arg.full_name = Some(<<" ","A","l","-","O","'","x"," ">>)
    /\ proc[c].arg.email = Some(<<" ","B","o","b","@","X",".","c","o","m">>)
    /\ users[i].full_name = <<"A","l","-","O","'","x">>
    /\ users[i].email = <<"b","o","b","@","x",".","c","o","m">>

\* ------------------------------------------------------------------------
\* C28: a call that returns an error wrote nothing
\* ------------------------------------------------------------------------
\* The step ends a Create, Update or Delete of client c with an error,
\* before its statement (a validation error) or with it.
EndsInError(c) ==
  /\ proc'[c] # proc[c]
  /\ proc'[c].pc = "done"
  /\ proc'[c].op \in {"Create", "Update", "Delete"}
  /\ proc'[c].err # NoErr

\* C28: a Create, Update or Delete that returns an error (invalid input, a
\* conflict, not found, or the failure of its statement) leaves the table as
\* it was when the call began: no row added, removed or changed, no
\* updated_at refreshed.
C28_ErrorLeavesStore ==
  /\ [][\A c \in Clients : EndsInError(c) => users' = users]_vars
  /\ [][\A c \in Clients :
          proc[c].pc # "repo" /\ proc'[c].pc = "repo" => users' = users]_vars

\* A Delete of a row that exists returned the failure of its statement, and
\* the row is still there.
C28_Witness ==
  \E c \in Clients :
    /\ proc[c].pc = "done" /\ proc[c].id \in DOMAIN users
    /\ proc[c].op = "Delete"
    /\ proc[c].raw = QueryCanceled
    /\ proc[c].err # NoErr

\* ------------------------------------------------------------------------
\* C29: Update and Delete of one identity at the same time
\* ------------------------------------------------------------------------
\* Client u's Update with at least one field and client d's Delete name the
\* same id, both have returned, and one's statement ran while the other
\* call was in flight.
RacedUpdateDelete(u, d) ==
  /\ u # d /\ Done(u) /\ Done(d)
  /\ proc[u].op = "Update" /\ NonEmpty(proc[u].req)
  /\ proc[d].op = "Delete" /\ proc[d].repoCalls = 1
  /\ proc[u].id = proc[d].id
  /\ proc[d].call \in proc[u].inflight \/ proc[u].call \in proc[d].inflight

C30_ShutdownOrder ==
  /\ [](main.dbClosed =>
          /\ main.signal \in Signals
          /\ ~main.shutdownErr
          /\ ~InFlight)
  /\ [](main.shutdownErr =>
          /\ main.exited /\ main.code = ExitFailure
          /\ ~main.dbClosed)
  /\ [][main.pc = "signalled" /\ main'.pc # "signalled"
          => main'.pc = "shutdown" /\ ~main'.dbClosed]_vars
  /\ [][~main.dbClosed /\ main'.dbClosed
          => main.pc = "closing" /\ ~main.shutdownErr /\ ~InFlight]_vars
  /\ [][main.dbClosed => proc' = proc /\ users' = users]_vars

\* After a DELETE removed jdoe the process was signalled, Shutdown returned
\* without error and the database connection was closed.
C30_Witness ==
  /\ main.pc = "stopped" /\ main.dbClosed
  /\ \E c \in Clients :
       /\ proc[c].pc = "done" /\ proc[c].op = "Delete"
       /\ proc[c].err = NoErr /\ 1 \notin DOMAIN users

====
